---- MODULE Spec2Model ----
(***************************************************************************)
(* corivai: the structured-diff engine and review pipeline.                *)
(*                                                                         *)
(* A Python str is a sequence of one-character strings; None is the value  *)
(* NoneVal (NoLine where the variable otherwise holds a list index).       *)
(* Indices into Python lists are kept 0-based, as in the code, and a list  *)
(* element lst[i] is read as lst[i + 1].                                   *)
(***************************************************************************)
EXTENDS Integers, Sequences, FiniteSets, TLC

(***************************************************************************)
(* Bounds of the model.                                                    *)
(***************************************************************************)
MaxDiffLines == 4

MaxChunkItems == 4

MaxChunkSize == 3

MaxItems == 3

MaxFindings == 2

MaxRuns == 2

MaxSha == 2

MaxMarkers == 2

MaxRetriesArg == 4

MaxDelayArg == 3

MaxTextLen == 4

MaxBackendItems == 2

MaxResponses == 2

(***************************************************************************)
(* Python values and str methods.                                          *)
(***************************************************************************)
NoneVal == <<"None">>

\* The truth value of a str or None.
py_bool(v) == v # NoneVal /\ v # <<>>

NoLine == -1

Whitespace == {" ", "\t", "\n", "\r"}

Digits == {"0", "1", "2", "3", "4", "5", "6", "7", "8", "9"}

NL == "\n"

startswith(s, prefix) ==
    /\ Len(s) >= Len(prefix)
    /\ SubSeq(s, 1, Len(prefix)) = prefix

RECURSIVE lstrip(_)
lstrip(s) ==
    IF s = <<>> THEN <<>>
    ELSE IF Head(s) \in Whitespace THEN lstrip(Tail(s))
    ELSE s

RECURSIVE rstrip(_)
rstrip(s) ==
    IF s = <<>> THEN <<>>
    ELSE IF s[Len(s)] \in Whitespace THEN rstrip(SubSeq(s, 1, Len(s) - 1))
    ELSE s

strip(s) == rstrip(lstrip(s))

RECURSIVE split(_, _)
split(s, sep) ==
    IF \A k \in 1..Len(s) : s[k] # sep THEN <<s>>
    ELSE LET p == CHOOSE k \in 1..Len(s) :
                     s[k] = sep /\ \A j \in 1..(k - 1) : s[j] # sep
         IN <<SubSeq(s, 1, p - 1)>> \o split(SubSeq(s, p + 1, Len(s)), sep)

RECURSIVE join(_, _)
join(sep, parts) ==
    IF parts = <<>> THEN <<>>
    ELSE IF Len(parts) = 1 THEN parts[1]
    ELSE parts[1] \o <<sep>> \o join(sep, Tail(parts))

RECURSIVE int(_)
int(ds) ==
    IF ds = <<>> THEN 0
    ELSE 10 * int(SubSeq(ds, 1, Len(ds) - 1))
         + (CHOOSE n \in 0..9 : ToString(n) = ds[Len(ds)])

(***************************************************************************)
(* The literals the parser tests lines against.                            *)
(***************************************************************************)
DIFF_GIT == <<"d", "i", "f", "f", " ", "-", "-", "g", "i", "t">>

DIFF_GIT_A == DIFF_GIT \o <<" ", "a", "/">>

SEP_B == <<" ", "b", "/">>

AT_AT == <<"@", "@">>

INDEX_PREFIX == <<"i", "n", "d", "e", "x", " ">>

OLD_PREFIX == <<"-", "-", "-", " ">>

NEW_PREFIX == <<"+", "+", "+", " ">>

(***************************************************************************)
(* re.match(r'diff --git a/(.+?) b/(.+)', line): the lazy first group ends *)
(* at the first ' b/' that leaves both groups non-empty; group(2) runs to  *)
(* the end of the line.  NoneVal when there is no match.                   *)
(***************************************************************************)
file_header_match(line) ==
    LET first == Len(DIFF_GIT_A) + 2
        ok(p) == /\ p + Len(SEP_B) <= Len(line)
                 /\ SubSeq(line, p, p + Len(SEP_B) - 1) = SEP_B
        cand == {p \in first..Len(line) : ok(p)}
    IN IF startswith(line, DIFF_GIT_A) /\ cand # {}
       THEN LET p == CHOOSE q \in cand : \A r \in cand : q <= r
            IN SubSeq(line, p + Len(SEP_B), Len(line))
       ELSE NoneVal

(***************************************************************************)
(* re.match(r'@@ -\d+(?:,\d+)? \+(\d+)(?:,\d+)? @@', line): group(1), the  *)
(* new-file start, as its digit string; NoneVal when there is no match.    *)
(***************************************************************************)
RECURSIVE digits_end(_, _)
digits_end(s, p) ==
    IF p <= Len(s) /\ s[p] \in Digits THEN digits_end(s, p + 1) ELSE p

lit_at(s, p, lit) ==
    /\ p + Len(lit) - 1 <= Len(s)
    /\ SubSeq(s, p, p + Len(lit) - 1) = lit

opt_count_end(s, p) ==
    IF lit_at(s, p, <<",">>) /\ digits_end(s, p + 1) > p + 1
    THEN digits_end(s, p + 1)
    ELSE p

hunk_header_match(line) ==
    LET p1 == Len(<<"@", "@", " ", "-">>) + 1
        p2 == digits_end(line, p1)
        p3 == opt_count_end(line, p2)
        p4 == p3 + Len(<<" ", "+">>)
        p5 == digits_end(line, p4)
        p6 == opt_count_end(line, p5)
    IN IF /\ lit_at(line, 1, <<"@", "@", " ", "-">>)
          /\ p2 > p1
          /\ lit_at(line, p3, <<" ", "+">>)
          /\ p5 > p4
          /\ lit_at(line, p6, <<" ", "@", "@">>)
       THEN SubSeq(line, p4, p5 - 1)
       ELSE NoneVal

(***************************************************************************)
(* PRReviewer._normalize_code                                              *)
(***************************************************************************)
is_nonblank(line) == strip(line) # <<>>

_normalize_code(code) ==
    LET kept == SelectSeq(split(code, NL), is_nonblank)
    IN join(NL, [k \in 1..Len(kept) |-> strip(kept[k])])

(***************************************************************************)
(* PRReviewer.extract_code_block.  The loop state is i, block_start_line,  *)
(* current_block and changed_blocks; code_lines and current_indent are     *)
(* written but never read by any caller and are left out.                  *)
(***************************************************************************)
save_block(current_file, st) ==
    LET block_text == join(NL, st.current_block)
    IN IF strip(block_text) # <<>>
       THEN Append(st.changed_blocks,
                   [file_path |-> current_file,
                    changes |-> block_text,
                    start_line |-> st.block_start_line])
       ELSE st.changed_blocks

close_block(current_file, st) ==
    IF st.current_block # <<>>
    THEN [st EXCEPT !.changed_blocks = save_block(current_file, st),
                    !.current_block = <<>>,
                    !.block_start_line = NoLine]
    ELSE st

added_line(line, st) ==
    LET content == Tail(line)
    IN IF strip(content) # <<>>
       THEN [st EXCEPT !.block_start_line =
                           IF st.block_start_line = NoLine
                           THEN st.i ELSE st.block_start_line,
                       !.current_block = Append(st.current_block, content)]
       ELSE IF st.current_block # <<>>
       THEN [st EXCEPT !.current_block = Append(st.current_block, content)]
       ELSE st

block_line(line, current_file, st) ==
    LET after == IF startswith(line, <<"+">>) THEN added_line(line, st)
                 ELSE IF startswith(line, <<" ">>) THEN close_block(current_file, st)
                 ELSE close_block(current_file, st)
    IN [after EXCEPT !.i = st.i + 1]

RECURSIVE block_loop(_, _, _)
block_loop(lines, current_file, st) ==
    IF ~(st.i < Len(lines)) THEN st
    ELSE LET line == lines[st.i + 1]
         IN IF startswith(line, DIFF_GIT) \/ startswith(line, AT_AT) THEN st
            ELSE block_loop(lines, current_file, block_line(line, current_file, st))

extract_code_block_unflushed(lines, start_idx, current_file) ==
    LET st == block_loop(lines, current_file,
                         [i |-> start_idx,
                          block_start_line |-> NoLine,
                          current_block |-> <<>>,
                          changed_blocks |-> <<>>])
    IN [new_idx |-> st.i, changed_blocks |-> st.changed_blocks]

extract_code_block(lines, start_idx, current_file) ==
    LET st == block_loop(lines, current_file,
                         [i |-> start_idx,
                          block_start_line |-> NoLine,
                          current_block |-> <<>>,
                          changed_blocks |-> <<>>])
    IN [new_idx |-> st.i,
        changed_blocks |-> IF st.current_block # <<>>
                           THEN save_block(current_file, st)
                           ELSE st.changed_blocks]

(***************************************************************************)
(* PRReviewer.create_structured_diff.  The loop state is i, current_file,  *)
(* current_line and the list structured_diff["diff"]; starts records, for  *)
(* each appended item, the block['start_line'] it was computed from.       *)
(***************************************************************************)
diff_item_commented(block, current_line, i) ==
    [file_path |-> block.file_path,
     changes |-> block.changes,
     line |-> current_line + (block.start_line - i) + 1,
     comment |-> block.changes]

diff_item(block, current_line, i) ==
    [file_path |-> block.file_path,
     changes |-> block.changes,
     line |-> current_line + (block.start_line - i) + 1,
     comment |-> <<>>]

RECURSIVE append_blocks(_, _)
append_blocks(st, blocks) ==
    IF blocks = <<>> THEN st
    ELSE LET block == Head(blocks)
             st1 == IF strip(block.changes) # <<>>
                    THEN [st EXCEPT !.diff = Append(st.diff,
                                                 diff_item(block, st.current_line, st.i)),
                                    !.starts = Append(st.starts, block.start_line)]
                    ELSE st
         IN append_blocks(st1, Tail(blocks))

file_header_line(line, st) ==
    LET m == file_header_match(line)
    IN [st EXCEPT !.current_file = IF m # NoneVal THEN m ELSE st.current_file,
                  !.i = st.i + 1]

hunk_header_line(line, st) ==
    LET m == hunk_header_match(line)
    IN [st EXCEPT !.current_line = IF m # NoneVal THEN int(m) - 1 ELSE st.current_line,
                  !.i = st.i + 1]

code_lines(lines, st) ==
    LET r == extract_code_block(lines, st.i, st.current_file)
        st1 == append_blocks(st, r.changed_blocks)
    IN [st1 EXCEPT !.current_line = st.current_line + (r.new_idx - st.i),
                   !.i = r.new_idx]

diff_line(lines, st) ==
    LET line == lines[st.i + 1]
    IN IF startswith(line, DIFF_GIT) THEN file_header_line(line, st)
       ELSE IF \/ startswith(line, INDEX_PREFIX)
               \/ startswith(line, OLD_PREFIX)
               \/ startswith(line, NEW_PREFIX)
       THEN [st EXCEPT !.i = st.i + 1]
       ELSE IF startswith(line, AT_AT) THEN hunk_header_line(line, st)
       ELSE IF startswith(line, <<"+">>) \/ startswith(line, <<" ">>)
       THEN code_lines(lines, st)
       ELSE [st EXCEPT !.i = st.i + 1]

RECURSIVE diff_loop(_, _)
diff_loop(lines, st) ==
    IF ~(st.i < Len(lines)) THEN st
    ELSE diff_loop(lines, diff_line(lines, st))

create_structured_diff(lines) ==
    diff_loop(lines, [i |-> 0,
                      current_file |-> NoneVal,
                      current_line |-> 0,
                      diff |-> <<>>,
                      starts |-> <<>>])

(***************************************************************************)
(* PRReviewer.chunk_diff_data: a generator.  chunk_slice is the slice      *)
(* diff_items[i:i + chunk_size]; chunk_diff_data is the list of everything *)
(* the generator yields when it is run to exhaustion from offset i.        *)
(***************************************************************************)
py_slice(lst, lo, hi) ==
    SubSeq(lst, lo + 1, IF hi < Len(lst) THEN hi ELSE Len(lst))

chunk_slice_short(diff_items, i, size) == py_slice(diff_items, i, i + size - 1)

chunk_slice(diff_items, i, size) == py_slice(diff_items, i, i + size)

chunk_step_overlap(i, size) == i + size - 1

chunk_step(i, size) == i + size

RECURSIVE chunk_diff_data(_, _, _)
chunk_diff_data(diff_items, i, size) ==
    IF ~(i < Len(diff_items)) THEN <<>>
    ELSE <<chunk_slice(diff_items, i, size)>>
         \o chunk_diff_data(diff_items, chunk_step(i, size), size)

(***************************************************************************)
(* PRReviewer.merge_review_responses                                       *)
(***************************************************************************)
RECURSIVE merge_review_responses_reversed(_)
merge_review_responses_reversed(responses) ==
    IF responses = <<>> THEN <<>>
    ELSE merge_review_responses_reversed(Tail(responses)) \o Head(responses)

RECURSIVE merge_review_responses(_)
merge_review_responses(responses) ==
    IF responses = <<>> THEN <<>>
    ELSE Head(responses) \o merge_review_responses(Tail(responses))

(***************************************************************************)
(* PRReviewer.apply_review_comments.  find_entry is the inner for loop     *)
(* with its break: the comments appended for one review comment.           *)
(***************************************************************************)
FINDING_PREFIX ==
    <<"*", "*", "F", "i", "n", "d", "i", "n", "g", "*", "*", ":", " ">>

entry_matches(diff_entry, comment) ==
    /\ diff_entry.file_path = comment.file_path
    /\ _normalize_code(diff_entry.changes) = _normalize_code(comment.line_string)

host_comment(comment, diff_entry) ==
    [path |-> comment.file_path,
     position |-> diff_entry.line,
     body |-> FINDING_PREFIX \o comment.comment]

RECURSIVE find_entry_last(_, _)
find_entry_last(comment, entries) ==
    IF entries = <<>> THEN <<>>
    ELSE IF entry_matches(entries[Len(entries)], comment)
    THEN <<host_comment(comment, entries[Len(entries)])>>
    ELSE find_entry_last(comment, SubSeq(entries, 1, Len(entries) - 1))

RECURSIVE find_entry(_, _)
find_entry(comment, entries) ==
    IF entries = <<>> THEN <<>>
    ELSE IF entry_matches(Head(entries), comment)
    THEN <<host_comment(comment, Head(entries))>>
    ELSE find_entry(comment, Tail(entries))

RECURSIVE apply_until_unmatched(_, _)
apply_until_unmatched(comments, diff) ==
    IF comments = <<>> THEN <<>>
    ELSE IF find_entry(Head(comments), diff) = <<>> THEN <<>>
    ELSE find_entry(Head(comments), diff)
         \o apply_until_unmatched(Tail(comments), diff)

RECURSIVE apply_review_comments(_, _)
apply_review_comments(comments, diff) ==
    IF comments = <<>> THEN <<>>
    ELSE find_entry(Head(comments), diff)
         \o apply_review_comments(Tail(comments), diff)

(***************************************************************************)
(* What apply_review_comments leaves in structured_diff["diff"]: the loop  *)
(* reads diff_entry and appends a new dict to github_comments; it stores   *)
(* nothing into the entry or the list.                                     *)
(***************************************************************************)
entry_commented(diff_entry, comment) ==
    [diff_entry EXCEPT !.comment = comment.comment]

entry_after_match(diff_entry, comment) == diff_entry

RECURSIVE entries_after_find(_, _)
entries_after_find(comment, entries) ==
    IF entries = <<>> THEN <<>>
    ELSE IF entry_matches(Head(entries), comment)
    THEN <<entry_after_match(Head(entries), comment)>> \o Tail(entries)
    ELSE <<Head(entries)>> \o entries_after_find(comment, Tail(entries))

RECURSIVE diff_after_apply(_, _)
diff_after_apply(comments, diff) ==
    IF comments = <<>> THEN diff
    ELSE diff_after_apply(Tail(comments), entries_after_find(Head(comments), diff))

(***************************************************************************)
(* State.  pc is the position in the operation under study; diff_content   *)
(* is diff_content.split('\n'); structured_diff is structured_diff["diff"]; *)
(* block_starts is the block['start_line'] of each item of structured_diff; *)
(* chunk_i and chunks are the offset of the chunk_diff_data generator and  *)
(* what it has yielded; review_response is review_response.comments.       *)
(* wrapped is one call of a function under a retry decorator: the          *)
(* decorator's arguments and the locals of its wrapper.  existing_comments *)
(* is the set of review comments already on the change request when the    *)
(* structured diff is built; diff_response is diff_response["diff"], the    *)
(* items of the backend's answer as json.loads returns them;               *)
(* review_responses is the list process_chunks returns, the comments of    *)
(* one ReviewResponse per chunk.                                           *)
(***************************************************************************)
VARIABLES pc, diff_content, structured_diff, block_starts,
          chunk_size, chunk_i, chunks, review_response, github_comments, wrapped,
          existing_comments, diff_response, review_responses

(***************************************************************************)
(* The change request on the Git host and the runs of the reviewer against *)
(* it.  head_sha is pr.head.sha (commits are numbered), pr_diff the diff   *)
(* the host returns, issue_comments the bodies of the issue comments in    *)
(* the order the host lists them, reviews the reviews created, each with   *)
(* the run that created it; program is the deployed entry point,           *)
(* max_diff_size its configuration, and run[r] the local state of run r.   *)
(***************************************************************************)
VARIABLES head_sha, pr_diff, issue_comments, reviews, program, max_diff_size, run

funvars == <<pc, diff_content, structured_diff, block_starts,
             chunk_size, chunk_i, chunks, review_response, github_comments, wrapped,
             existing_comments, diff_response, review_responses>>

NoCall == [pc |-> "none"]

hostvars == <<head_sha, pr_diff, issue_comments, reviews, program, max_diff_size, run>>

vars == <<funvars, hostvars>>

HostUnused ==
    /\ head_sha = 0
    /\ pr_diff = <<>>
    /\ issue_comments = <<>>
    /\ reviews = <<>>
    /\ program = "none"
    /\ max_diff_size = 0
    /\ run = <<>>

SeqsUpTo(S, n) == UNION {[1..k -> S] : k \in 0..n}

(***************************************************************************)
(* SpecParse: create_structured_diff applied to every diff made of at most *)
(* MaxDiffLines lines drawn from ParseLines, after an optional preamble.   *)
(***************************************************************************)
LINE_FILE_F == DIFF_GIT_A \o <<"f">> \o SEP_B \o <<"f">>

LINE_FILE_G == DIFF_GIT_A \o <<"g">> \o SEP_B \o <<"g">>

LINE_FILE_BAD == DIFF_GIT \o <<" ", "x">>

LINE_HUNK_3 == <<"@", "@", " ", "-", "3", " ", "+", "3", " ", "@", "@">>

LINE_HUNK_1 == <<"@", "@", " ", "-", "1", ",", "2", " ", "+", "1", ",", "3", " ", "@", "@">>

LINE_HUNK_0 == <<"@", "@", " ", "-", "1", " ", "+", "0", ",", "0", " ", "@", "@">>

LINE_ADD_A == <<"+", "a">>

LINE_ADD_BLANK == <<"+">>

LINE_CONTEXT == <<" ", "c">>

LINE_REMOVED == <<"-", "r">>

LINE_NEW_FILE == NEW_PREFIX \o <<"b", "/", "f">>

ParseLines ==
    {LINE_FILE_F, LINE_FILE_G, LINE_FILE_BAD, LINE_HUNK_3, LINE_HUNK_1,
     LINE_HUNK_0, LINE_ADD_A, LINE_ADD_BLANK, LINE_CONTEXT, LINE_REMOVED,
     LINE_NEW_FILE}

\* A diff is either free text, or a file header and a hunk header followed
\* by free text.
Preambles == {<<>>, <<LINE_FILE_F, LINE_HUNK_3>>}

DiffInputs ==
    {pre \o body : pre \in Preambles, body \in SeqsUpTo(ParseLines, MaxDiffLines)}
        \ {<<>>}

InitParse ==
    /\ pc = "input"
    /\ diff_content \in DiffInputs
    /\ structured_diff = <<>>
    /\ block_starts = <<>>
    /\ chunk_size = 0
    /\ chunk_i = 0
    /\ chunks = <<>>
    /\ review_response = <<>>
    /\ github_comments = <<>>
    /\ wrapped = NoCall
    /\ existing_comments = {}
    /\ diff_response = <<>>
    /\ review_responses = <<>>
    /\ HostUnused

ParseDiff ==
    /\ pc = "input"
    /\ LET r == create_structured_diff(diff_content)
       IN /\ structured_diff' = r.diff
          /\ block_starts' = r.starts
    /\ pc' = "parsed"
    /\ UNCHANGED <<diff_content, chunk_size, chunk_i, chunks, review_response,
                   github_comments>>
    /\ UNCHANGED <<wrapped, existing_comments, diff_response, review_responses>>
    /\ UNCHANGED hostvars

NextParse == ParseDiff

SpecParse == InitParse /\ [][NextParse]_vars

(***************************************************************************)
(* SpecChunk: the chunk_diff_data generator run over every list of at most *)
(* MaxChunkItems items, for every chunk_size in 1..MaxChunkSize.           *)
(***************************************************************************)
Item(file, changes, line) ==
    [file_path |-> file, changes |-> changes, line |-> line, comment |-> <<>>]

ChunkItems ==
    {Item(<<"f">>, <<"a">>, 1), Item(<<"f">>, <<"b">>, 3), Item(<<"g">>, <<"a">>, 1)}

InitChunk ==
    /\ pc = "chunking"
    /\ diff_content = <<>>
    /\ structured_diff \in SeqsUpTo(ChunkItems, MaxChunkItems)
    /\ block_starts = <<>>
    /\ chunk_size \in 1..MaxChunkSize
    /\ chunk_i = 0
    /\ chunks = <<>>
    /\ review_response = <<>>
    /\ github_comments = <<>>
    /\ wrapped = NoCall
    /\ existing_comments = {}
    /\ diff_response = <<>>
    /\ review_responses = <<>>
    /\ HostUnused

ChunkYield ==
    /\ pc = "chunking"
    /\ chunk_i < Len(structured_diff)
    /\ chunks' = Append(chunks, chunk_slice(structured_diff, chunk_i, chunk_size))
    /\ chunk_i' = chunk_step(chunk_i, chunk_size)
    /\ UNCHANGED <<pc, diff_content, structured_diff, block_starts, chunk_size,
                   review_response, github_comments>>
    /\ UNCHANGED <<wrapped, existing_comments, diff_response, review_responses>>
    /\ UNCHANGED hostvars

ChunkStop ==
    /\ pc = "chunking"
    /\ ~(chunk_i < Len(structured_diff))
    /\ pc' = "done"
    /\ UNCHANGED <<diff_content, structured_diff, block_starts, chunk_size,
                   chunk_i, chunks, review_response, github_comments>>
    /\ UNCHANGED <<wrapped, existing_comments, diff_response, review_responses>>
    /\ UNCHANGED hostvars

NextChunk == ChunkYield \/ ChunkStop

SpecChunk == InitChunk /\ [][NextChunk]_vars

(***************************************************************************)
(* SpecReconcile: apply_review_comments applied to every structured diff   *)
(* of at most MaxItems items and every response of at most MaxFindings     *)
(* review comments.                                                        *)
(***************************************************************************)
Finding(file, line_string, comment) ==
    [comment |-> comment, file_path |-> file, line_string |-> line_string]

ReconcileItems ==
    {Item(<<"f">>, <<"a">>, 1), Item(<<"f">>, <<" ", "a">>, 2),
     Item(<<"f">>, <<"b">>, 3), Item(<<"g">>, <<"a">>, 1),
     Item(<<"g">>, <<"b">>, 2)}

ReconcileFindings ==
    {Finding(<<"f">>, <<"a">>, <<"c">>), Finding(<<"f">>, <<"a", "\n">>, <<"d">>),
     Finding(<<"g">>, <<"a">>, <<"c">>), Finding(<<"g">>, <<"b">>, <<"d">>),
     Finding(<<"f">>, <<"z">>, <<"c">>)}

InitReconcile ==
    /\ pc = "findings"
    /\ diff_content = <<>>
    /\ structured_diff \in SeqsUpTo(ReconcileItems, MaxItems)
    /\ block_starts = <<>>
    /\ chunk_size = 0
    /\ chunk_i = 0
    /\ chunks = <<>>
    /\ review_response \in SeqsUpTo(ReconcileFindings, MaxFindings)
    /\ github_comments = <<>>
    /\ wrapped = NoCall
    /\ existing_comments = {}
    /\ diff_response = <<>>
    /\ review_responses = <<>>
    /\ HostUnused

Reconcile ==
    /\ pc = "findings"
    /\ github_comments' = apply_review_comments(review_response, structured_diff)
    /\ pc' = "done"
    /\ UNCHANGED <<diff_content, structured_diff, block_starts, chunk_size,
                   chunk_i, chunks, review_response>>
    /\ UNCHANGED <<wrapped, existing_comments, diff_response, review_responses>>
    /\ UNCHANGED hostvars

NextReconcile == Reconcile

SpecReconcile == InitReconcile /\ [][NextReconcile]_vars

(***************************************************************************)
(* AIReviewGenerator.generate, after json.loads: the comprehension that    *)
(* builds the ReviewComment objects.  SpecGenerate runs it over every      *)
(* answer of up to MaxBackendItems items and reconciles the result against *)
(* a one-item structured diff.                                             *)
(***************************************************************************)
generate_item(item) ==
    IF py_bool(item.comment)
    THEN <<Finding(item.file_path, item.changes, item.comment)>>
    ELSE <<>>

RECURSIVE generate_comments(_)
generate_comments(items) ==
    IF items = <<>> THEN <<>>
    ELSE generate_item(Head(items)) \o generate_comments(Tail(items))

BackendItems ==
    {[file_path |-> f, changes |-> c, line |-> 1, comment |-> m] :
        f \in {<<>>, <<"f">>}, c \in {<<>>, <<"a">>}, m \in {<<>>, <<"c">>}}

InitGenerate ==
    /\ pc = "response"
    /\ diff_content = <<>>
    /\ structured_diff = <<Item(<<"f">>, <<"a">>, 1)>>
    /\ block_starts = <<>>
    /\ chunk_size = 0
    /\ chunk_i = 0
    /\ chunks = <<>>
    /\ review_response = <<>>
    /\ github_comments = <<>>
    /\ wrapped = NoCall
    /\ existing_comments = {}
    /\ diff_response \in SeqsUpTo(BackendItems, MaxBackendItems)
    /\ review_responses = <<>>
    /\ HostUnused

Generate ==
    /\ pc = "response"
    /\ review_response' = generate_comments(diff_response)
    /\ pc' = "findings"
    /\ UNCHANGED <<diff_content, structured_diff, block_starts, chunk_size,
                   chunk_i, chunks, github_comments>>
    /\ UNCHANGED <<wrapped, existing_comments, diff_response, review_responses>>
    /\ UNCHANGED hostvars

NextGenerate == Generate \/ Reconcile

SpecGenerate == InitGenerate /\ [][NextGenerate]_vars

(***************************************************************************)
(* SpecMerge: process_pr from the list process_chunks returned to the      *)
(* comments it posts: merge_review_responses, then apply_review_comments.  *)
(* The findings differ in their comment, so that their order shows in the  *)
(* result; the last one matches no item.                                   *)
(***************************************************************************)
MergeFindings ==
    {Finding(<<"f">>, <<"a">>, <<"c">>), Finding(<<"g">>, <<"a">>, <<"d">>),
     Finding(<<"f">>, <<"z">>, <<"e">>)}

MergeDiffs ==
    {<<Item(<<"f">>, <<"a">>, 1), Item(<<"g">>, <<"a">>, 1)>>,
     <<Item(<<"g">>, <<"a">>, 2), Item(<<"f">>, <<"a">>, 3), Item(<<"f">>, <<"a">>, 5)>>}

InitMerge ==
    /\ pc = "responses"
    /\ diff_content = <<>>
    /\ structured_diff \in MergeDiffs
    /\ block_starts = <<>>
    /\ chunk_size = 0
    /\ chunk_i = 0
    /\ chunks = <<>>
    /\ review_response = <<>>
    /\ github_comments = <<>>
    /\ wrapped = NoCall
    /\ existing_comments = {}
    /\ diff_response = <<>>
    /\ review_responses \in SeqsUpTo(SeqsUpTo(MergeFindings, MaxFindings), MaxResponses)
    /\ HostUnused

Merge ==
    /\ pc = "responses"
    /\ review_response' = merge_review_responses(review_responses)
    /\ pc' = "findings"
    /\ UNCHANGED <<diff_content, structured_diff, block_starts, chunk_size,
                   chunk_i, chunks, github_comments>>
    /\ UNCHANGED <<wrapped, existing_comments, diff_response, review_responses>>
    /\ UNCHANGED hostvars

NextMerge == Merge \/ Reconcile

SpecMerge == InitMerge /\ [][NextMerge]_vars

(***************************************************************************)
(* SpecNormalize: apply_review_comments over one item and one finding of   *)
(* the same file, for every pair of short texts: the comparison under      *)
(* _normalize_code.  An item's changes are never blank; a finding's        *)
(* line_string is whatever the backend wrote.                              *)
(***************************************************************************)
TextChars == {"a", " ", NL}

Texts == SeqsUpTo(TextChars, MaxTextLen)

InitNormalize ==
    /\ pc = "findings"
    /\ diff_content = <<>>
    /\ structured_diff \in {<<Item(<<"f">>, t, 1)>> : t \in {u \in Texts : is_nonblank(u)}}
    /\ block_starts = <<>>
    /\ chunk_size = 0
    /\ chunk_i = 0
    /\ chunks = <<>>
    /\ review_response \in {<<Finding(<<"f">>, t, <<"c">>)>> : t \in Texts}
    /\ github_comments = <<>>
    /\ wrapped = NoCall
    /\ existing_comments = {}
    /\ diff_response = <<>>
    /\ review_responses = <<>>
    /\ HostUnused

SpecNormalize == InitNormalize /\ [][NextReconcile]_vars

(***************************************************************************)
(* Configuration of PRReviewer and of its retry decorator.                 *)
(***************************************************************************)
CHUNK_SIZE == 5

DEFAULT_MAX_DIFF_SIZE == 500000

FETCH_MAX_RETRIES == 3

FETCH_DELAY == 2

(***************************************************************************)
(* len(diff_content): the characters of the lines and the newlines that    *)
(* separate them.                                                          *)
(***************************************************************************)
RECURSIVE sum_len(_)
sum_len(lines) == IF lines = <<>> THEN 0 ELSE Len(Head(lines)) + sum_len(Tail(lines))

str_len(lines) == sum_len(lines) + (Len(lines) - 1)

(***************************************************************************)
(* The processed marker: f"@corivai-review Last Processed SHA: {sha}", and *)
(* the test f"..." in comment.body of process_pr.                          *)
(***************************************************************************)
sha_text(sha) == <<"s", ToString(sha)>>

PR_MARKER ==
    <<"@", "c", "o", "r", "i", "v", "a", "i", "-", "r", "e", "v", "i", "e", "w", " ",
      "L", "a", "s", "t", " ", "P", "r", "o", "c", "e", "s", "s", "e", "d", " ",
      "S", "H", "A", ":", " ">>

pr_marker(sha) == PR_MARKER \o sha_text(sha)

contains(text, needle) ==
    \E p \in 1..(Len(text) - Len(needle) + 1) :
        SubSeq(text, p, p + Len(needle) - 1) = needle

already_processed_any(comments, sha) ==
    \E k \in DOMAIN comments : contains(comments[k], PR_MARKER)

RECURSIVE already_processed(_, _)
already_processed(comments, sha) ==
    IF comments = <<>> THEN FALSE
    ELSE IF contains(Head(comments), pr_marker(sha)) THEN TRUE
    ELSE already_processed(Tail(comments), sha)

(***************************************************************************)
(* corivai.decorators.retry: the wait after failed attempt number attempt  *)
(* (0-based): delay * (2 ** attempt).                                      *)
(***************************************************************************)
RECURSIVE Pow(_, _)
Pow(b, e) == IF e = 0 THEN 1 ELSE b * Pow(b, e - 1)

retry_sleep(delay, attempt) == delay * Pow(2, attempt)

\* retry: the test 'attempt == max_retries - 1' that re-raises.
last_attempt_late(attempt, max_retries) == attempt = max_retries

last_attempt(attempt, max_retries) == attempt = max_retries - 1

(***************************************************************************)
(* review.py: its retry decorator waits delay ** retries after the         *)
(* retries-th failure; its marker is "@ai-reviewer Last Processed SHA:"    *)
(* and main takes the SHA of the first issue comment that starts with it.  *)
(***************************************************************************)
RV_MAX_RETRIES == 3

RV_DELAY == 2

RV_POST_MAX_RETRIES == 2

RV_POST_DELAY == 3

rv_retry_sleep(delay, retries) == Pow(delay, retries)

\* review.py retry: the test 'retries >= max_retries' that re-raises, made
\* after retries is incremented.
rv_retries_exhausted(retries, max_retries) == retries >= max_retries

RV_MARKER ==
    <<"@", "a", "i", "-", "r", "e", "v", "i", "e", "w", "e", "r", " ",
      "L", "a", "s", "t", " ", "P", "r", "o", "c", "e", "s", "s", "e", "d", " ",
      "S", "H", "A", ":">>

rv_marker(sha) == RV_MARKER \o <<" ">> \o sha_text(sha)

RECURSIVE last_processed_sha(_)
last_processed_sha(comments) ==
    IF comments = <<>> THEN NoneVal
    ELSE IF startswith(Head(comments), RV_MARKER)
    THEN strip(split(Head(comments), ":")[2])
    ELSE last_processed_sha(Tail(comments))

SUMMARY_BODY == <<"#", "#", " ", "s">>

(***************************************************************************)
(* review.py post_comment: the map from file to hunks built from the diff. *)
(* current_hunk is initialised to None and never assigned.  The result is  *)
(* "error" when a hunk header is met for a file that has no entry.         *)
(***************************************************************************)
hunks_line(line, st) ==
    IF startswith(line, DIFF_GIT)
    THEN LET m == file_header_match(line)
         IN IF m # NoneVal
            THEN [st EXCEPT !.current_file = m,
                            !.files = @ \cup {m},
                            !.hunks = [f \in st.files \cup {m} |->
                                          IF f = m THEN <<>> ELSE st.hunks[f]]]
            ELSE st
    ELSE IF startswith(line, AT_AT)
    THEN LET m == hunk_header_match(line)
         IN IF m = NoneVal THEN st
            ELSE IF st.current_file \notin st.files THEN [st EXCEPT !.error = TRUE]
            ELSE [st EXCEPT !.hunks[st.current_file] =
                                Append(@, [start_line |-> int(m), lines |-> <<>>])]
    ELSE IF st.current_file # NoneVal /\ st.current_hunk # NoneVal
    THEN IF startswith(line, <<"+">>) /\ ~startswith(line, <<"+", "+", "+">>)
         THEN LET hs == st.hunks[st.current_file]
              IN [st EXCEPT !.hunks[st.current_file][Len(hs)].lines =
                                Append(@, rstrip(Tail(line)))]
         ELSE st
    ELSE st

RECURSIVE hunks_loop(_, _)
hunks_loop(lines, st) ==
    IF lines = <<>> \/ st.error THEN st
    ELSE hunks_loop(Tail(lines), hunks_line(Head(lines), st))

file_hunks(lines) ==
    hunks_loop(lines, [current_file |-> NoneVal, current_hunk |-> NoneVal,
                       files |-> {}, hunks |-> <<>>, error |-> FALSE])

(***************************************************************************)
(* review.py post_comment: the payload.  contents is the answer of the     *)
(* host's contents endpoint: NoneVal for a status other than 200, else the *)
(* lines of the file.                                                      *)
(***************************************************************************)
first_index(seq, text) ==
    LET hits == {k \in 1..Len(seq) : strip(seq[k]) = strip(text)}
    IN IF hits = {} THEN NoLine ELSE CHOOSE k \in hits : \A m \in hits : k <= m

RECURSIVE position_in_hunks(_, _)
position_in_hunks(hunks, line_string) ==
    IF hunks = <<>> THEN NoLine
    ELSE LET k == first_index(Head(hunks).lines, line_string)
             found == IF k = NoLine THEN NoLine ELSE Head(hunks).start_line + (k - 1)
         IN IF found # NoLine /\ found # 0 THEN found
            ELSE LET rest == position_in_hunks(Tail(hunks), line_string)
                 IN IF rest # NoLine THEN rest ELSE found

rv_body(comment, line_number) ==
    FINDING_PREFIX \o comment
        \o <<"\n", "(", "L", "i", "n", "e", ":", " ", ToString(line_number), ")">>

rv_payload_one(comment, fh, contents, existing) ==
    IF contents = NoneVal THEN <<>>
    ELSE LET line_number == first_index(contents, comment.line_string)
             position == IF comment.file_path \in fh.files
                         THEN position_in_hunks(fh.hunks[comment.file_path],
                                                comment.line_string)
                         ELSE NoLine
         IN IF line_number = NoLine THEN <<>>
            ELSE IF position = NoLine THEN <<>>
            ELSE IF <<comment.file_path, position>> \in existing THEN <<>>
            ELSE <<[path |-> comment.file_path,
                    position |-> position,
                    body |-> rv_body(comment.comment, line_number)]>>

RECURSIVE rv_payload(_, _, _, _)
rv_payload(comments, fh, contents, existing) ==
    IF comments = <<>> THEN <<>>
    ELSE rv_payload_one(Head(comments), fh, contents, existing)
         \o rv_payload(Tail(comments), fh, contents, existing)

(***************************************************************************)
(* SpecRetry: one call of a function under each of the two retry           *)
(* decorators, for every max_retries in 1..MaxRetriesArg and delay in      *)
(* 1..MaxDelayArg.  attempt is the loop variable of decorators.py, retries *)
(* the counter of review.py; calls counts the invocations of the function, *)
(* sleeps lists the arguments of time.sleep.                               *)
(***************************************************************************)
InitRetry ==
    /\ pc = "retry"
    /\ diff_content = <<>>
    /\ structured_diff = <<>>
    /\ block_starts = <<>>
    /\ chunk_size = 0
    /\ chunk_i = 0
    /\ chunks = <<>>
    /\ review_response = <<>>
    /\ github_comments = <<>>
    /\ wrapped \in {[pc |-> "call", decorator |-> d, max_retries |-> n, delay |-> t,
                     attempt |-> 0, retries |-> 0, calls |-> 0, sleeps |-> <<>>] :
                       d \in {"decorators", "review"},
                       n \in 1..MaxRetriesArg, t \in 1..MaxDelayArg}
    /\ existing_comments = {}
    /\ diff_response = <<>>
    /\ review_responses = <<>>
    /\ HostUnused

\* decorators.py retry: func returns.
AttemptReturns ==
    /\ pc = "retry"
    /\ wrapped.pc = "call"
    /\ wrapped.decorator = "decorators"
    /\ wrapped' = [wrapped EXCEPT !.pc = "returned", !.calls = @ + 1]
    /\ UNCHANGED <<pc, diff_content, structured_diff, block_starts, chunk_size,
                   chunk_i, chunks, review_response, github_comments,
                   existing_comments, diff_response, review_responses>>
    /\ UNCHANGED hostvars

\* decorators.py retry: func raises.
AttemptRaises ==
    /\ pc = "retry"
    /\ wrapped.pc = "call"
    /\ wrapped.decorator = "decorators"
    /\ wrapped' =
          IF last_attempt(wrapped.attempt, wrapped.max_retries)
          THEN [wrapped EXCEPT !.pc = "raised", !.calls = @ + 1]
          ELSE [wrapped EXCEPT !.calls = @ + 1,
                               !.sleeps = Append(@, retry_sleep(wrapped.delay,
                                                                wrapped.attempt)),
                               !.attempt = @ + 1]
    /\ UNCHANGED <<pc, diff_content, structured_diff, block_starts, chunk_size,
                   chunk_i, chunks, review_response, github_comments,
                   existing_comments, diff_response, review_responses>>
    /\ UNCHANGED hostvars

\* review.py retry: func returns.
RvAttemptReturns ==
    /\ pc = "retry"
    /\ wrapped.pc = "call"
    /\ wrapped.decorator = "review"
    /\ wrapped' = [wrapped EXCEPT !.pc = "returned", !.calls = @ + 1]
    /\ UNCHANGED <<pc, diff_content, structured_diff, block_starts, chunk_size,
                   chunk_i, chunks, review_response, github_comments,
                   existing_comments, diff_response, review_responses>>
    /\ UNCHANGED hostvars

\* review.py retry: func raises.
RvAttemptRaises ==
    /\ pc = "retry"
    /\ wrapped.pc = "call"
    /\ wrapped.decorator = "review"
    /\ wrapped' =
          IF rv_retries_exhausted(wrapped.retries + 1, wrapped.max_retries)
          THEN [wrapped EXCEPT !.pc = "raised", !.calls = @ + 1, !.retries = @ + 1]
          ELSE [wrapped EXCEPT !.calls = @ + 1,
                               !.retries = @ + 1,
                               !.sleeps = Append(@, rv_retry_sleep(wrapped.delay,
                                                                   wrapped.retries + 1))]
    /\ UNCHANGED <<pc, diff_content, structured_diff, block_starts, chunk_size,
                   chunk_i, chunks, review_response, github_comments,
                   existing_comments, diff_response, review_responses>>
    /\ UNCHANGED hostvars

NextRetry == AttemptReturns \/ AttemptRaises \/ RvAttemptReturns \/ RvAttemptRaises

SpecRetry == InitRetry /\ [][NextRetry]_vars

(***************************************************************************)
(* The diffs the host may hold for the change request, and what the review *)
(* backend may answer for a chunk: nothing, one comment per item of the    *)
(* chunk (the item's file_path and changes echoed), or a comment on code   *)
(* that is not in the diff.                                                *)
(***************************************************************************)
DIFF_ONE == <<LINE_FILE_F, LINE_HUNK_3, LINE_ADD_A>>

DIFF_NONE == <<LINE_FILE_F, LINE_HUNK_3, LINE_REMOVED>>

DIFF_TWO_FILES ==
    <<LINE_FILE_F, LINE_HUNK_3, LINE_ADD_A, LINE_FILE_G, LINE_HUNK_1, LINE_ADD_A>>

DIFF_SIX ==
    <<LINE_FILE_F, LINE_HUNK_1, LINE_ADD_A, LINE_CONTEXT, LINE_ADD_A, LINE_CONTEXT,
      LINE_ADD_A, LINE_CONTEXT, LINE_ADD_A, LINE_CONTEXT, LINE_ADD_A, LINE_CONTEXT,
      LINE_ADD_A>>

DiffPool == {DIFF_ONE, DIFF_NONE, DIFF_TWO_FILES, DIFF_SIX}

RV_DEFAULT_MAX_DIFF_SIZE == 100000

MaxDiffSizes(prog) ==
    {str_len(DIFF_ONE),
     IF prog = "pr_reviewer" THEN DEFAULT_MAX_DIFF_SIZE ELSE RV_DEFAULT_MAX_DIFF_SIZE}

echo(chunk) ==
    [k \in 1..Len(chunk) |-> Finding(chunk[k].file_path, chunk[k].changes, <<"c">>)]

BackendResponses(chunk) ==
    {<<>>, echo(chunk), <<Finding(<<"f">>, <<"z">>, <<"c">>)>>}

RvBackendResponses ==
    {<<>>, <<Finding(<<"f">>, <<"a">>, <<"c">>)>>, <<Finding(<<"f">>, <<"z">>, <<"c">>)>>}

FileContents == {NoneVal, <<<<"a">>>>, <<<<"q">>>>}

Markers(prog, shas) ==
    {IF prog = "pr_reviewer" THEN pr_marker(n) ELSE rv_marker(n) : n \in shas}

(***************************************************************************)
(* SpecBuild: create_structured_diff over a diff of a change request that  *)
(* already carries review comments.  An existing comment is a file path, a *)
(* position and the normalized text it was made on.                        *)
(***************************************************************************)
ExistingComment(file, position, body) ==
    [file_path |-> file, position |-> position, normalized_body |-> body]

DIFF_SAME_IN_TWO_FILES ==
    <<LINE_FILE_F, LINE_HUNK_3, LINE_ADD_A, LINE_FILE_G, LINE_HUNK_3, LINE_ADD_A>>

BuildDiffs == {DIFF_ONE, DIFF_NONE, DIFF_TWO_FILES, DIFF_SAME_IN_TWO_FILES}

\* Comments that agree with the item (f, 'a', 3) on everything, on file
\* and position, on file and content, on content and position, and one on
\* the item (g, 'a', 1).
ExistingComments ==
    {ExistingComment(<<"f">>, 3, <<"a">>), ExistingComment(<<"f">>, 3, <<"z">>),
     ExistingComment(<<"f">>, 9, <<"a">>), ExistingComment(<<"g">>, 3, <<"a">>),
     ExistingComment(<<"g">>, 1, <<"a">>)}

InitBuild ==
    /\ pc = "input"
    /\ diff_content \in BuildDiffs
    /\ structured_diff = <<>>
    /\ block_starts = <<>>
    /\ chunk_size = 0
    /\ chunk_i = 0
    /\ chunks = <<>>
    /\ review_response = <<>>
    /\ github_comments = <<>>
    /\ wrapped = NoCall
    /\ existing_comments \in SUBSET ExistingComments
    /\ diff_response = <<>>
    /\ review_responses = <<>>
    /\ HostUnused

SpecBuild == InitBuild /\ [][NextParse]_vars

(***************************************************************************)
(* Spec: runs of the deployed program against one change request, one run  *)
(* at a time; the head of the change request may move at any moment.       *)
(***************************************************************************)
\* The marker comments a change request may carry before the first run: at
\* most MaxMarkers of them, one per SHA, in any order.
EarlierMarkers(prog) ==
    {ms \in SeqsUpTo(Markers(prog, 1..MaxSha), MaxMarkers) :
        \A k, j \in DOMAIN ms : k # j => ms[k] # ms[j]}

Runs == 1..MaxRuns

config_missing_token(github_token, repo_name) == ~py_bool(github_token)

\* __init__ / main: not all([github_token, repo_name]).
config_missing(github_token, repo_name) ==
    ~(py_bool(github_token) /\ py_bool(repo_name))

\* os.getenv('GITHUB_TOKEN') and os.getenv('GITHUB_REPOSITORY') as a run may
\* find them: unset, empty or set.  review.py main hands them unchecked to
\* Github(); its runs are modelled with both set.
FullEnv == [GITHUB_TOKEN |-> <<"t">>, GITHUB_REPOSITORY |-> <<"o", "/", "r">>]

NoEnv == [GITHUB_TOKEN |-> NoneVal, GITHUB_REPOSITORY |-> NoneVal]

Environments(prog) ==
    IF prog = "pr_reviewer"
    THEN {FullEnv,
          [FullEnv EXCEPT !.GITHUB_TOKEN = NoneVal],
          [FullEnv EXCEPT !.GITHUB_REPOSITORY = NoneVal],
          [FullEnv EXCEPT !.GITHUB_REPOSITORY = <<>>]}
    ELSE {FullEnv}

IdleRun ==
    [pc |-> "idle", env |-> NoEnv, sha |-> 0, diff |-> <<>>, sdiff |-> <<>>, chunk |-> 0,
     sent |-> <<>>, responses |-> <<>>, comments |-> <<>>, retries |-> 0, sleeps |-> <<>>,
     seen_issue |-> <<>>, seen_reviews |-> 0, existing |-> {},
     n_fetch |-> 0, n_backend |-> 0, n_delay |-> 0, n_review |-> 0,
     n_marker |-> 0, n_summary |-> 0, unparsed |-> 0, outcome |-> "none"]

PastRun == [pc |-> "done", outcome |-> "past"] @@ IdleRun

Active(r) == run[r].pc \notin {"idle", "done", "failed"}

\* The (path, position) pairs of the review comments on the change request.
Range(seq) == {seq[k] : k \in DOMAIN seq}

ReviewPositions ==
    UNION {{<<c.path, c.position>> : c \in Range(reviews[k].comments)} :
              k \in 1..Len(reviews)}

Init ==
    /\ pc = "host"
    /\ diff_content = <<>>
    /\ structured_diff = <<>>
    /\ block_starts = <<>>
    /\ chunk_size = 0
    /\ chunk_i = 0
    /\ chunks = <<>>
    /\ review_response = <<>>
    /\ github_comments = <<>>
    /\ wrapped = NoCall
    /\ existing_comments = {}
    /\ diff_response = <<>>
    /\ review_responses = <<>>
    /\ program \in {"pr_reviewer", "review"}
    /\ head_sha = 1
    /\ pr_diff \in DiffPool
    /\ issue_comments \in IF program = "pr_reviewer" THEN {<<>>}
                          ELSE EarlierMarkers(program)
    /\ reviews = <<>>
    /\ max_diff_size \in MaxDiffSizes(program)
    /\ run = [r \in Runs |-> IdleRun]

Set(r, fields) == run' = [run EXCEPT ![r] = fields @@ run[r]]

\* The run returns or raises: its working locals are gone.  What stays in
\* the record is the history the properties read.
Locals ==
    [sdiff |-> <<>>, chunk |-> 0, sent |-> <<>>, responses |-> <<>>, retries |-> 0]

End(r, how, fields) ==
    Set(r, [pc |-> IF how = "error" THEN "failed" ELSE "done", outcome |-> how]
           @@ fields @@ Locals)

\* __init__ and process_pr / main: the configuration is read and checked,
\* and a run that has what it needs goes on to get_pr_number, repo.get_pull
\* and pr.head.sha.  A run starts when no other run is under way; runs start
\* in the order of their numbers.
\* The records of the runs that ended before are reduced to PastRun: what
\* they did to the change request stays in issue_comments and reviews.
BeginRun(r) ==
    /\ run[r].pc = "idle"
    /\ \A q \in 1..(r - 1) : run[q].pc # "idle"
    /\ \E env \in Environments(program) :
          run' = [q \in Runs |->
                    IF q = r
                    THEN IF program = "pr_reviewer"
                            /\ config_missing(env.GITHUB_TOKEN, env.GITHUB_REPOSITORY)
                         THEN [pc |-> "failed", outcome |-> "config_error",
                               env |-> env] @@ IdleRun
                         ELSE [pc |-> "check", env |-> env, sha |-> head_sha,
                               existing |-> ReviewPositions] @@ IdleRun
                    ELSE IF run[q].pc \in {"done", "failed"} THEN PastRun
                    ELSE run[q]]
    /\ UNCHANGED <<funvars, head_sha, pr_diff, issue_comments, reviews, program, max_diff_size>>

StartRun(r) ==
    /\ \A q \in Runs : ~Active(q)
    /\ BeginRun(r)

\* Nothing in either program stops a second run from starting while a run
\* is under way (two workflow runs triggered for one head).  The overlap
\* that is modelled is that of the first two runs of process_pr against one
\* head: the second starts while the first is past its check, with its
\* comments ready to post, and the two then proceed in any order.
Overlappable(q) == run[q].pc = "post_review" /\ run[q].sha = head_sha

StartConcurrentRun(r) ==
    /\ \E q \in Runs :
          /\ Overlappable(q)
          /\ \A p \in Runs \ {q} : run[p].pc = "idle"
    /\ BeginRun(r)

\* process_pr: the loop over pr.get_issue_comments().
CheckProcessed(r) ==
    /\ program = "pr_reviewer"
    /\ run[r].pc = "check"
    /\ IF already_processed(issue_comments, run[r].sha)
       THEN End(r, "already_processed", [seen_issue |-> issue_comments,
                                         seen_reviews |-> Len(reviews)])
       ELSE Set(r, [pc |-> "fetch", seen_issue |-> issue_comments,
                    seen_reviews |-> Len(reviews)])
    /\ UNCHANGED <<funvars, head_sha, pr_diff, issue_comments, reviews, program, max_diff_size>>

\* get_pr_diff under @retry(max_retries=3, delay=2): one attempt that
\* returns the diff.  sleeps is the history of the waits of the call under
\* way; it is dropped when the call returns.
FetchOk(r) ==
    /\ program = "pr_reviewer"
    /\ run[r].pc = "fetch"
    /\ Set(r, [pc |-> "size", diff |-> pr_diff, sleeps |-> <<>>,
                n_fetch |-> run[r].n_fetch + 1])
    /\ UNCHANGED <<funvars, head_sha, pr_diff, issue_comments, reviews, program, max_diff_size>>

\* One attempt that raises: the last one re-raises, the others sleep.
FetchFail(r) ==
    /\ program = "pr_reviewer"
    /\ run[r].pc = "fetch"
    /\ IF last_attempt(run[r].retries, FETCH_MAX_RETRIES)
       THEN End(r, "error", [n_fetch |-> run[r].n_fetch + 1])
       ELSE Set(r, [retries |-> run[r].retries + 1,
                    n_fetch |-> run[r].n_fetch + 1,
                    sleeps |-> Append(run[r].sleeps,
                                      retry_sleep(FETCH_DELAY, run[r].retries))])
    /\ UNCHANGED <<funvars, head_sha, pr_diff, issue_comments, reviews, program, max_diff_size>>

diff_too_large_or_equal(diff, limit) == str_len(diff) >= limit

diff_too_large(diff, limit) == str_len(diff) > limit

\* process_pr: the size check and create_structured_diff.
CheckSize(r) ==
    /\ program = "pr_reviewer"
    /\ run[r].pc = "size"
    /\ IF diff_too_large(run[r].diff, max_diff_size)
       THEN End(r, "too_large", <<>>)
       ELSE Set(r, [pc |-> "generate", retries |-> 0,
                    sdiff |-> create_structured_diff(run[r].diff).diff])
    /\ UNCHANGED <<funvars, head_sha, pr_diff, issue_comments, reviews, program, max_diff_size>>

total_chunks(diff) == (Len(diff) + CHUNK_SIZE - 1) \div CHUNK_SIZE

RunChunks(r) == chunk_diff_data(run[r].sdiff, 0, CHUNK_SIZE)

delay_due_always(i, total) == i <= total

\* process_chunks: the test before time.sleep(self.chunk_delay); i is the
\* number of the chunk, counted from 1.
delay_due(i, total) == i < total

\* process_chunks: one iteration of the loop in which generate returns;
\* the iteration sleeps chunk_delay unless it is the last.  sent lists the
\* chunks handed to generate so far.
GenerateOk(r) ==
    /\ program = "pr_reviewer"
    /\ run[r].pc = "generate"
    /\ run[r].chunk < Len(RunChunks(r))
    /\ \E resp \in BackendResponses(RunChunks(r)[run[r].chunk + 1]) :
          Set(r, [chunk |-> run[r].chunk + 1,
                  responses |-> Append(run[r].responses, resp),
                  sent |-> Append(run[r].sent, RunChunks(r)[run[r].chunk + 1]),
                  n_backend |-> run[r].n_backend + 1,
                  n_delay |-> IF delay_due(run[r].chunk + 1, total_chunks(run[r].sdiff))
                              THEN run[r].n_delay + 1 ELSE run[r].n_delay])
    /\ UNCHANGED <<funvars, head_sha, pr_diff, issue_comments, reviews, program, max_diff_size>>

\* One iteration in which generate raises: process_chunks re-raises.
GenerateFail(r) ==
    /\ program = "pr_reviewer"
    /\ run[r].pc = "generate"
    /\ run[r].chunk < Len(RunChunks(r))
    /\ End(r, "error", [n_backend |-> run[r].n_backend + 1])
    /\ UNCHANGED <<funvars, head_sha, pr_diff, issue_comments, reviews, program, max_diff_size>>

\* One iteration in which the backend answers and AIReviewGenerator.generate
\* cannot parse the answer as the expected JSON: generate raises ValueError
\* and process_chunks re-raises.
GenerateUnparsable(r) ==
    /\ program = "pr_reviewer"
    /\ run[r].pc = "generate"
    /\ run[r].chunk < Len(RunChunks(r))
    /\ End(r, "error", [n_backend |-> run[r].n_backend + 1,
                        unparsed |-> run[r].unparsed + 1])
    /\ UNCHANGED <<funvars, head_sha, pr_diff, issue_comments, reviews, program, max_diff_size>>

\* merge_review_responses, apply_review_comments and the first test of
\* post_comments, once the chunks are exhausted.
ReconcileRun(r) ==
    /\ program = "pr_reviewer"
    /\ run[r].pc = "generate"
    /\ ~(run[r].chunk < Len(RunChunks(r)))
    /\ LET merged == merge_review_responses(run[r].responses)
           found == apply_review_comments(merged, run[r].sdiff)
       IN IF found = <<>>
          THEN End(r, "completed", [comments |-> found])
          ELSE Set(r, [pc |-> "post_review", comments |-> found,
                       sdiff |-> diff_after_apply(merged, run[r].sdiff)])
    /\ UNCHANGED <<funvars, head_sha, pr_diff, issue_comments, reviews, program, max_diff_size>>

\* post_comments: pr.create_review returns.
CreateReviewOk(r) ==
    /\ program = "pr_reviewer"
    /\ run[r].pc = "post_review"
    /\ reviews' = Append(reviews, [run |-> r, sha |-> run[r].sha,
                                   comments |-> run[r].comments])
    /\ Set(r, [pc |-> "post_marker", n_review |-> run[r].n_review + 1])
    /\ UNCHANGED <<funvars, head_sha, pr_diff, issue_comments, program, max_diff_size>>

CreateReviewFailMarked(r) ==
    /\ program = "pr_reviewer"
    /\ run[r].pc = "post_review"
    /\ issue_comments' = Append(issue_comments, pr_marker(run[r].sha))
    /\ End(r, "error", [n_marker |-> run[r].n_marker + 1])
    /\ UNCHANGED <<funvars, head_sha, pr_diff, reviews, program, max_diff_size>>

\* post_comments: pr.create_review raises; the exception is re-raised.
CreateReviewFail(r) ==
    /\ program = "pr_reviewer"
    /\ run[r].pc = "post_review"
    /\ End(r, "error", <<>>)
    /\ UNCHANGED <<funvars, head_sha, pr_diff, issue_comments, reviews, program, max_diff_size>>

\* post_comments: pr.create_issue_comment returns.
CreateMarkerOk(r) ==
    /\ program = "pr_reviewer"
    /\ run[r].pc = "post_marker"
    /\ issue_comments' = Append(issue_comments, pr_marker(run[r].sha))
    /\ End(r, "completed", [n_marker |-> run[r].n_marker + 1])
    /\ UNCHANGED <<funvars, head_sha, pr_diff, reviews, program, max_diff_size>>

\* post_comments: pr.create_issue_comment raises; the exception is re-raised.
CreateMarkerFail(r) ==
    /\ program = "pr_reviewer"
    /\ run[r].pc = "post_marker"
    /\ End(r, "error", <<>>)
    /\ UNCHANGED <<funvars, head_sha, pr_diff, issue_comments, reviews, program, max_diff_size>>

(***************************************************************************)
(* review.py main.                                                         *)
(***************************************************************************)
\* main: the loop over pr.get_issue_comments() that stops at the first
\* comment starting with the marker, and the comparison with the head SHA.
RvCheckProcessed(r) ==
    /\ program = "review"
    /\ run[r].pc = "check"
    /\ IF last_processed_sha(issue_comments) = sha_text(run[r].sha)
       THEN End(r, "already_processed", [seen_issue |-> issue_comments,
                                         seen_reviews |-> Len(reviews)])
       ELSE Set(r, [pc |-> "fetch", seen_issue |-> issue_comments,
                    seen_reviews |-> Len(reviews)])
    /\ UNCHANGED <<funvars, head_sha, pr_diff, issue_comments, reviews, program, max_diff_size>>

\* get_pr_diff under retry(max_retries=3, delay=2): an attempt that returns.
RvFetchOk(r) ==
    /\ program = "review"
    /\ run[r].pc = "fetch"
    /\ Set(r, [pc |-> "size", diff |-> pr_diff, sleeps |-> <<>>,
                n_fetch |-> run[r].n_fetch + 1])
    /\ UNCHANGED <<funvars, head_sha, pr_diff, issue_comments, reviews, program, max_diff_size>>

\* An attempt that raises.
RvFetchFail(r) ==
    /\ program = "review"
    /\ run[r].pc = "fetch"
    /\ IF rv_retries_exhausted(run[r].retries + 1, RV_MAX_RETRIES)
       THEN End(r, "error", [n_fetch |-> run[r].n_fetch + 1])
       ELSE Set(r, [retries |-> run[r].retries + 1,
                    n_fetch |-> run[r].n_fetch + 1,
                    sleeps |-> Append(run[r].sleeps,
                                      rv_retry_sleep(RV_DELAY, run[r].retries + 1))])
    /\ UNCHANGED <<funvars, head_sha, pr_diff, issue_comments, reviews, program, max_diff_size>>

\* main: the size check.
RvCheckSize(r) ==
    /\ program = "review"
    /\ run[r].pc = "size"
    /\ IF diff_too_large(run[r].diff, max_diff_size)
       THEN End(r, "too_large", <<>>)
       ELSE Set(r, [pc |-> "generate", retries |-> 0])
    /\ UNCHANGED <<funvars, head_sha, pr_diff, issue_comments, reviews, program, max_diff_size>>

\* generate_review under retry(max_retries=3, delay=2): an attempt whose
\* answer passes the validation.
RvGenerateOk(r) ==
    /\ program = "review"
    /\ run[r].pc = "generate"
    /\ \E resp \in RvBackendResponses :
          Set(r, [pc |-> "summary", retries |-> 0, sleeps |-> <<>>,
                  responses |-> resp,
                  n_backend |-> run[r].n_backend + 1])
    /\ UNCHANGED <<funvars, head_sha, pr_diff, issue_comments, reviews, program, max_diff_size>>

\* An attempt in which the backend or the validation raises.
RvGenerateFail(r) ==
    /\ program = "review"
    /\ run[r].pc = "generate"
    /\ IF rv_retries_exhausted(run[r].retries + 1, RV_MAX_RETRIES)
       THEN End(r, "error", [n_backend |-> run[r].n_backend + 1])
       ELSE Set(r, [retries |-> run[r].retries + 1,
                    n_backend |-> run[r].n_backend + 1,
                    sleeps |-> Append(run[r].sleeps,
                                      rv_retry_sleep(RV_DELAY, run[r].retries + 1))])
    /\ UNCHANGED <<funvars, head_sha, pr_diff, issue_comments, reviews, program, max_diff_size>>

\* post_summary under retry(max_retries=2, delay=3): create_issue_comment
\* returns.
RvPostSummaryOk(r) ==
    /\ program = "review"
    /\ run[r].pc = "summary"
    /\ issue_comments' = Append(issue_comments, SUMMARY_BODY)
    /\ Set(r, [pc |-> "post", retries |-> 0, sleeps |-> <<>>,
                n_summary |-> run[r].n_summary + 1])
    /\ UNCHANGED <<funvars, head_sha, pr_diff, reviews, program, max_diff_size>>

\* create_issue_comment raises.
RvPostSummaryFail(r) ==
    /\ program = "review"
    /\ run[r].pc = "summary"
    /\ IF rv_retries_exhausted(run[r].retries + 1, RV_POST_MAX_RETRIES)
       THEN End(r, "error", <<>>)
       ELSE Set(r, [retries |-> run[r].retries + 1,
                    sleeps |-> Append(run[r].sleeps,
                                      rv_retry_sleep(RV_POST_DELAY, run[r].retries + 1))])
    /\ UNCHANGED <<funvars, head_sha, pr_diff, issue_comments, reviews, program, max_diff_size>>

\* post_comment under retry(max_retries=2, delay=3): an attempt in which no
\* call raises.  The review and the marker are created only for a payload
\* that is not empty.
RvPostCommentOk(r) ==
    /\ program = "review"
    /\ run[r].pc = "post"
    /\ ~file_hunks(run[r].diff).error
    /\ \E contents \in FileContents :
          LET payload == rv_payload(run[r].responses, file_hunks(run[r].diff),
                                    contents, ReviewPositions)
          IN IF payload # <<>>
             THEN /\ reviews' = Append(reviews, [run |-> r, sha |-> run[r].sha,
                                                 comments |-> payload])
                  /\ issue_comments' = Append(issue_comments, rv_marker(run[r].sha))
                  /\ End(r, "completed", [comments |-> payload, sleeps |-> <<>>,
                                          n_review |-> run[r].n_review + 1,
                                          n_marker |-> run[r].n_marker + 1])
             ELSE /\ UNCHANGED <<reviews, issue_comments>>
                  /\ End(r, "completed", [comments |-> payload, sleeps |-> <<>>])
    /\ UNCHANGED <<funvars, head_sha, pr_diff, program, max_diff_size>>

\* An attempt in which a call to the host raises (get_review_comments or
\* get_contents: with an empty payload no other call is made).  The
\* decorator calls post_comment again unless the attempts are used up.
RvPostCommentFail(r) ==
    /\ program = "review"
    /\ run[r].pc = "post"
    /\ IF rv_retries_exhausted(run[r].retries + 1, RV_POST_MAX_RETRIES)
       THEN End(r, "error", <<>>)
       ELSE Set(r, [retries |-> run[r].retries + 1,
                    sleeps |-> Append(run[r].sleeps,
                                      rv_retry_sleep(RV_POST_DELAY, run[r].retries + 1))])
    /\ UNCHANGED <<funvars, head_sha, pr_diff, issue_comments, reviews, program, max_diff_size>>


\* A commit is pushed to the change request.
Push ==
    /\ head_sha < MaxSha
    /\ head_sha' = head_sha + 1
    /\ UNCHANGED <<funvars, pr_diff, issue_comments, reviews, program, max_diff_size, run>>

Next ==
    \/ Push
    \/ \E r \in Runs :
          \/ StartRun(r)
          \/ StartConcurrentRun(r)
          \/ CheckProcessed(r)
          \/ FetchOk(r)
          \/ FetchFail(r)
          \/ CheckSize(r)
          \/ GenerateOk(r)
          \/ GenerateFail(r)
          \/ GenerateUnparsable(r)
          \/ ReconcileRun(r)
          \/ CreateReviewOk(r)
          \/ CreateReviewFail(r)
          \/ CreateMarkerOk(r)
          \/ CreateMarkerFail(r)
          \/ RvCheckProcessed(r)
          \/ RvFetchOk(r)
          \/ RvFetchFail(r)
          \/ RvCheckSize(r)
          \/ RvGenerateOk(r)
          \/ RvGenerateFail(r)
          \/ RvPostSummaryOk(r)
          \/ RvPostSummaryFail(r)
          \/ RvPostCommentOk(r)
          \/ RvPostCommentFail(r)

Spec == Init /\ [][Next]_vars

(***************************************************************************)
(* Properties of chunk_diff_data (SpecChunk).                              *)
(***************************************************************************)
RECURSIVE Concat(_)
Concat(ss) == IF ss = <<>> THEN <<>> ELSE Head(ss) \o Concat(Tail(ss))

\* C1: the chunks yielded by chunk_diff_data, concatenated in yield order,
\* are the input list; every chunk but the last has chunk_size items, the
\* last has between 1 and chunk_size, no yielded chunk is ever empty and an
\* empty input yields no chunk.
ChunkPartition ==
    /\ \A k \in 1..Len(chunks) : Len(chunks[k]) >= 1
    /\ pc = "done" =>
          /\ Concat(chunks) = structured_diff
          /\ \A k \in 1..(Len(chunks) - 1) : Len(chunks[k]) = chunk_size
          /\ chunks # <<>> => Len(chunks[Len(chunks)]) \in 1..chunk_size
          /\ structured_diff = <<>> => chunks = <<>>

ChunkPartitionWitness ==
    /\ pc = "done"
    /\ Len(chunks) >= 2
    /\ Len(chunks[Len(chunks)]) < chunk_size

(***************************************************************************)
(* Properties of apply_review_comments (SpecReconcile).                    *)
(***************************************************************************)
SameFileAndContent(k, j) ==
    /\ structured_diff[j].file_path = review_response[k].file_path
    /\ _normalize_code(structured_diff[j].changes)
           = _normalize_code(review_response[k].line_string)

Matches(k) == {j \in 1..Len(structured_diff) : SameFileAndContent(k, j)}

FirstMatch(k) == CHOOSE j \in Matches(k) : \A m \in Matches(k) : j <= m

Matched(n) == {k \in 1..n : Matches(k) # {}}

\* C2: each review comment that has a diff entry of the same file_path and
\* normalize-equal content yields exactly one host comment, made of the
\* comment's file path, the position of the first such entry in list order
\* and the body "**Finding**: " + comment; later matching entries and
\* entries of another file are not used.
FirstMatchWins ==
    pc = "done" =>
        /\ Len(github_comments) = Cardinality(Matched(Len(review_response)))
        /\ \A k \in Matched(Len(review_response)) :
              github_comments[Cardinality(Matched(k))] =
                  [path |-> review_response[k].file_path,
                   position |-> structured_diff[FirstMatch(k)].line,
                   body |-> FINDING_PREFIX \o review_response[k].comment]

FirstMatchWinsWitness ==
    /\ pc = "done"
    /\ \E k \in 1..Len(review_response) :
          /\ Cardinality(Matches(k)) >= 2
          /\ \E j \in 1..Len(structured_diff) :
                /\ j < FirstMatch(k)
                /\ structured_diff[j].file_path # review_response[k].file_path
                /\ _normalize_code(structured_diff[j].changes)
                       = _normalize_code(review_response[k].line_string)
          /\ \E m \in Matches(k) :
                structured_diff[m].line # structured_diff[FirstMatch(k)].line

HasMatch(finding) ==
    \E j \in 1..Len(structured_diff) :
        /\ structured_diff[j].file_path = finding.file_path
        /\ _normalize_code(structured_diff[j].changes)
               = _normalize_code(finding.line_string)

\* C3: a review comment with no diff entry of the same file_path and
\* normalize-equal content yields no host comment, reconciliation completes
\* (no exception), and the review comments after it are still processed:
\* the host comments are those of the matched review comments, in order.
UnmatchedFindingDropped ==
    pc = "done" =>
        LET kept == SelectSeq(review_response, HasMatch)
        IN /\ Len(github_comments) = Len(kept)
           /\ \A k \in 1..Len(kept) :
                 /\ github_comments[k].path = kept[k].file_path
                 /\ github_comments[k].body = FINDING_PREFIX \o kept[k].comment

UnmatchedFindingDroppedWitness ==
    /\ pc = "done"
    /\ Len(review_response) = 2
    /\ ~HasMatch(review_response[1])
    /\ HasMatch(review_response[2])
    /\ Len(github_comments) = 1

(***************************************************************************)
(* Properties of create_structured_diff (SpecParse).                       *)
(***************************************************************************)
IsFileHeader(k) == startswith(diff_content[k + 1], DIFF_GIT)

\* The index of the nearest 'diff --git' line at or before index s, NoLine
\* when there is none.
FileHeaderBefore(s) ==
    LET hs == {k \in 0..s : IsFileHeader(k)}
    IN IF hs = {} THEN NoLine ELSE CHOOSE k \in hs : \A m \in hs : m <= k

ItemsFrom(h) == {j \in 1..Len(structured_diff) : block_starts[j] >= h}

\* The positions of the items of one file do not depend on what precedes
\* the file's 'diff --git' line: they are the positions obtained by parsing
\* the diff from that line on.
CounterFreshAt(h) ==
    LET suffix == create_structured_diff(SubSeq(diff_content, h + 1, Len(diff_content)))
        skipped == Len(structured_diff) - Cardinality(ItemsFrom(h))
    IN /\ Len(suffix.diff) = Cardinality(ItemsFrom(h))
       /\ \A j \in 1..Len(suffix.diff) :
             suffix.diff[j].line = structured_diff[skipped + j].line

IsMetaLine(k) ==
    \/ startswith(diff_content[k + 1], INDEX_PREFIX)
    \/ startswith(diff_content[k + 1], OLD_PREFIX)
    \/ startswith(diff_content[k + 1], NEW_PREFIX)

IsHunkHeader(k) == startswith(diff_content[k + 1], AT_AT)

\* The shape of the diffs the host's diff endpoint produces: the diff opens
\* with a file header, every file header parses and is followed (after its
\* index, --- and +++ lines) by a hunk header, and every hunk header
\* parses.
WellFormedDiff ==
    LET n == Len(diff_content)
    IN /\ IsFileHeader(0)
       /\ \A k \in 0..(n - 1) :
             /\ IsHunkHeader(k) => hunk_header_match(diff_content[k + 1]) # NoneVal
             /\ IsFileHeader(k) =>
                   /\ file_header_match(diff_content[k + 1]) # NoneVal
                   /\ \E h \in (k + 1)..(n - 1) :
                         /\ IsHunkHeader(h)
                         /\ \A m \in (k + 1)..(h - 1) : IsMetaLine(m)

\* C9: within one file (between two 'diff --git' lines) the positions of
\* the emitted items are non-decreasing in emission order, and the position
\* counter starts afresh at each 'diff --git' line.  Stated for well-formed
\* diffs, whose hunk headers may carry any line numbers.
PositionsMonotonePerFile ==
    pc = "parsed" /\ WellFormedDiff =>
        /\ \A j \in 1..(Len(structured_diff) - 1) :
              FileHeaderBefore(block_starts[j]) = FileHeaderBefore(block_starts[j + 1])
                  => structured_diff[j].line <= structured_diff[j + 1].line
        /\ \A h \in 0..(Len(diff_content) - 1) : IsFileHeader(h) => CounterFreshAt(h)

IsCountedLine(k) ==
    LET line == diff_content[k + 1]
    IN ~(\/ startswith(line, DIFF_GIT)
         \/ startswith(line, INDEX_PREFIX)
         \/ startswith(line, OLD_PREFIX)
         \/ startswith(line, NEW_PREFIX))

\* The number of counted diff lines after the nearest 'diff --git' line and
\* before the line at index s.
LinesConsumedBefore(s) ==
    Cardinality({k \in (FileHeaderBefore(s) + 1)..(s - 1) : IsCountedLine(k)})

\* C10: the position of an item is the number of diff lines consumed since
\* the nearest 'diff --git' line up to the first line of its block (hunk
\* headers, context, added and removed lines count one; index, --- and +++
\* lines count nothing), whatever numbers the hunk header carries.  Both
\* readings of "up to" are accepted: the block's first line excluded or
\* included.  Stated for well-formed diffs.
PositionIsDiffRelative ==
    pc = "parsed" /\ WellFormedDiff =>
        \A j \in 1..Len(structured_diff) :
            structured_diff[j].line \in
                {LinesConsumedBefore(block_starts[j]),
                 LinesConsumedBefore(block_starts[j]) + 1}

(***************************************************************************)
(* Runs of added lines (SpecParse).  Indices are those of diff_content,    *)
(* from 0.                                                                 *)
(***************************************************************************)
\* An index, --- or +++ line of a file's header: only such lines lie
\* between it and the file's 'diff --git' line.
InHeaderGroup(k) ==
    /\ IsMetaLine(k)
    /\ FileHeaderBefore(k) # NoLine
    /\ \A m \in (FileHeaderBefore(k) + 1)..k : IsMetaLine(m)

\* No line of a hunk body reads as an index, --- or +++ line.
PlainBody == \A k \in 0..(Len(diff_content) - 1) : IsMetaLine(k) => InHeaderGroup(k)

\* A '+' line of a hunk body (a '+' line that is no +++ file marker).
IsAddedLine(k) ==
    /\ startswith(diff_content[k + 1], <<"+">>)
    /\ ~InHeaderGroup(k)

Content(k) == Tail(diff_content[k + 1])

IsRunStart(k) == IsAddedLine(k) /\ (k = 0 \/ ~IsAddedLine(k - 1))

RunEnd(s) ==
    CHOOSE e \in s..(Len(diff_content) - 1) :
        /\ \A k \in s..e : IsAddedLine(k)
        /\ (e = Len(diff_content) - 1 \/ ~IsAddedLine(e + 1))

RunContents(s) == [n \in 1..(RunEnd(s) - s + 1) |-> Content(s + n - 1)]

\* The starts of the runs that hold a line that is not blank.
RunStarts ==
    {s \in 0..(Len(diff_content) - 1) :
        IsRunStart(s) /\ \E n \in DOMAIN RunContents(s) : is_nonblank(RunContents(s)[n])}

RECURSIVE Sorted(_)
Sorted(S) ==
    IF S = {} THEN <<>>
    ELSE LET lo == CHOOSE x \in S : \A y \in S : x <= y
         IN <<lo>> \o Sorted(S \ {lo})

SameHunk(a, b) == \A k \in a..b : ~IsFileHeader(k) /\ ~IsHunkHeader(k)

\* C11: each maximal run of consecutive added lines (that is not blank
\* throughout) yields exactly one item, whose changes are the run's lines
\* joined by newline; the positions of the items of two successive runs of
\* one hunk differ by the number of diff lines between the runs' first lines.
OneItemPerRun ==
    pc = "parsed" /\ WellFormedDiff /\ PlainBody =>
        LET starts == Sorted(RunStarts)
        IN /\ Len(structured_diff) = Len(starts)
           /\ \A j \in 1..Len(starts) :
                 /\ j <= Len(structured_diff)
                 /\ structured_diff[j].changes = join(NL, RunContents(starts[j]))
           /\ \A j \in 1..(Len(starts) - 1) :
                 (j + 1 <= Len(structured_diff) /\ SameHunk(starts[j], starts[j + 1]))
                     => structured_diff[j + 1].line - structured_diff[j].line
                            = starts[j + 1] - starts[j]

RECURSIVE NonBlankLines(_)
NonBlankLines(items) ==
    IF items = <<>> THEN <<>>
    ELSE SelectSeq(split(Head(items).changes, NL), is_nonblank)
         \o NonBlankLines(Tail(items))

AddedNonBlank ==
    LET added == Sorted({k \in 0..(Len(diff_content) - 1) :
                            IsAddedLine(k) /\ is_nonblank(Content(k))})
    IN [n \in 1..Len(added) |-> Content(added[n])]

\* C12: the lines of the changes of the items, in emission order, are
\* exactly the added lines of the hunk bodies that are not blank, in diff
\* order (those of a run that ends the input included); context, removed
\* and header lines contribute nothing and open no block.
ItemsAreTheAddedLines ==
    pc = "parsed" /\ WellFormedDiff =>
        /\ NonBlankLines(structured_diff) = AddedNonBlank
        /\ Len(structured_diff) = Cardinality(RunStarts)

\* C13: the block of an item opens at the first added line of its run,
\* whatever that line holds: the item's position is that of the run's first
\* line, also when the run begins with blank added lines.
BlockOpensAtRunStart ==
    pc = "parsed" /\ WellFormedDiff /\ PlainBody =>
        \A j \in 1..Len(structured_diff) :
            /\ block_starts[j] \in 0..(Len(diff_content) - 1)
            /\ IsRunStart(block_starts[j])

\* C14: every item has a position of at least 1, also after a hunk header
\* whose new-file start is 0.
PositionsArePositive ==
    pc = "parsed" /\ WellFormedDiff =>
        \A j \in 1..Len(structured_diff) : structured_diff[j].line >= 1

\* C15: no item has changes that are empty or whitespace only (a run of
\* blank added lines yields no item), and every item has an empty comment.
NoBlankItem ==
    pc = "parsed" =>
        \A j \in 1..Len(structured_diff) :
            /\ strip(structured_diff[j].changes) # <<>>
            /\ structured_diff[j].comment = <<>>

NoBlankItemWitness ==
    /\ pc = "parsed"
    /\ WellFormedDiff
    /\ \E s \in 0..(Len(diff_content) - 1) :
          /\ IsRunStart(s)
          /\ s \notin RunStarts
    /\ Len(structured_diff) >= 1

(***************************************************************************)
(* Runs against the host.                                                  *)
(***************************************************************************)
Pairs(comments) == {<<c.path, c.position>> : c \in Range(comments)}

PostedBy(r) == {k \in 1..Len(reviews) : reviews[k].run = r}

\* C4: in every run, the (path, position) pairs of the comments the run
\* posts are disjoint from the pairs of the review comments that were on
\* the change request when the run began.
PostedDisjointFromExisting ==
    \A r \in Runs : \A k \in PostedBy(r) :
        Pairs(reviews[k].comments) \cap run[r].existing = {}

marker_text(sha) ==
    IF program = "pr_reviewer" THEN pr_marker(sha) ELSE rv_marker(sha)

CarriesMarker(comments, sha) ==
    \E k \in DOMAIN comments : contains(comments[k], marker_text(sha))

NoWork(r) ==
    /\ run[r].n_fetch = 0
    /\ run[r].n_backend = 0
    /\ run[r].n_summary = 0
    /\ run[r].n_review = 0
    /\ run[r].n_marker = 0
    /\ PostedBy(r) = {}

\* C5: a run that found, among the issue comments it read, a marker for its
\* head SHA fetches no diff, calls no backend and posts nothing, whatever
\* other markers the comments hold and in whatever order.
MarkedHeadDoesNoWork ==
    \A r \in Runs :
        (run[r].pc \notin {"idle", "check"} /\ run[r].outcome # "past"
            /\ CarriesMarker(run[r].seen_issue, run[r].sha))
        => NoWork(r)

\* C6: every run of process_pr that passes the size check and finishes
\* without error has posted exactly one marker, with or without comments.
CompletedRunPostsOneMarker ==
    program = "pr_reviewer" =>
        \A r \in Runs :
            run[r].outcome = "completed" =>
                /\ run[r].n_marker = Len(<<r>>)
                /\ \E k \in DOMAIN issue_comments :
                      issue_comments[k] = pr_marker(run[r].sha)

\* C7: among the runs of process_pr against one head SHA, at most one posts
\* a review.
OneReviewPerSha ==
    program = "pr_reviewer" =>
        \A k, j \in 1..Len(reviews) :
            k # j => reviews[k].sha # reviews[j].sha

Decided(r) ==
    /\ run[r].diff # <<>>
    /\ run[r].pc \notin {"idle", "check", "fetch", "size"}

\* C8: a run whose fetched diff is longer than max_diff_size ends without
\* error, with no backend call, no review, no summary and no marker; a run
\* whose diff is exactly max_diff_size long goes on to the backend stage.
DiffSizeGate ==
    \A r \in Runs :
        Decided(r) =>
            IF str_len(run[r].diff) > max_diff_size
            THEN /\ run[r].pc = "done"
                 /\ run[r].outcome = "too_large"
                 /\ run[r].n_backend = 0
                 /\ run[r].n_summary = 0
                 /\ run[r].n_review = 0
                 /\ run[r].n_marker = 0
                 /\ PostedBy(r) = {}
            ELSE run[r].outcome # "too_large"

DiffSizeGateWitness ==
    \E r \in Runs :
        /\ Decided(r)
        /\ str_len(run[r].diff) > max_diff_size
        /\ run[r].outcome = "too_large"
        /\ run[r].n_fetch > 0

\* The boundary of C8: a run whose diff is exactly max_diff_size long has
\* called the backend.
DiffSizeGateEqualReached ==
    \E r \in Runs :
        /\ Decided(r)
        /\ str_len(run[r].diff) = max_diff_size
        /\ run[r].n_backend > 0

ChunkComments(r, k) == apply_review_comments(run[r].responses[k], RunChunks(r)[k])

\* C16: the comments reconciled from a chunk are posted before the backend
\* is invoked for the next chunk: once the backend has answered for chunk
\* k + 1, the comments of chunks 1..k are in a review of the run.
ChunkPostedBeforeNext ==
    program = "pr_reviewer" =>
        \A r \in Runs :
            run[r].pc = "generate" =>
                \A k \in 1..(run[r].chunk - 1) :
                    ChunkComments(r, k) # <<>> =>
                        \E j \in PostedBy(r) :
                            Pairs(ChunkComments(r, k)) \subseteq Pairs(reviews[j].comments)

\* The structured diff of every diff of the pool, built by
\* create_structured_diff once.
StructuredOfPool == [d \in DiffPool |-> create_structured_diff(d).diff]

StructuredOf(d) ==
    IF d \in DiffPool THEN StructuredOfPool[d] ELSE create_structured_diff(d).diff

NumChunks(r) ==
    Len(chunk_diff_data(StructuredOf(run[r].diff), 0, CHUNK_SIZE))

\* C17: a chunk whose backend answer does not parse is dropped alone: the
\* run does not fail for it, and it ends with the backend invoked for every
\* chunk.
UnparsableChunkSkipped ==
    program = "pr_reviewer" =>
        \A r \in Runs :
            run[r].unparsed > 0 =>
                /\ run[r].pc # "failed"
                /\ run[r].pc = "done" => run[r].n_backend = NumChunks(r)

RECURSIVE PerChunk(_, _)
PerChunk(r, k) ==
    IF k > Len(run[r].responses) THEN <<>>
    ELSE ChunkComments(r, k) \o PerChunk(r, k + 1)

\* C18: the findings of chunk k are reconciled against the items of chunk
\* k only: the comments of a run are those obtained chunk by chunk, none at
\* the position of an item of another chunk.
ReconciledWithinChunk ==
    program = "pr_reviewer" =>
        \A r \in Runs :
            run[r].pc \in {"post_review", "post_marker"} =>
                run[r].comments = PerChunk(r, Len(<<r>>))

FetchExhausted(r) ==
    run[r].pc = "failed" /\ run[r].outcome = "error" /\ run[r].diff = <<>>

\* C19: the retry-wrapped diff fetch is invoked at most 3 times; the first
\* attempt that succeeds returns, with no further invocation; when all 3
\* attempts fail the run aborts with no backend call and nothing posted.
FetchAtMostThrice ==
    \A r \in Runs :
        /\ run[r].n_fetch <= 3
        /\ run[r].pc = "fetch" =>
              /\ run[r].n_fetch = run[r].retries
              /\ run[r].n_fetch < 3
        /\ run[r].pc = "size" =>
              /\ run[r].n_fetch = run[r].retries + 1
              /\ run[r].diff = pr_diff
        /\ FetchExhausted(r) =>
              /\ run[r].n_fetch = 3
              /\ run[r].n_backend = 0
              /\ run[r].n_summary = 0
              /\ run[r].n_review = 0
              /\ run[r].n_marker = 0
              /\ PostedBy(r) = {}

FetchAtMostThriceWitness ==
    \E r \in Runs :
        /\ FetchExhausted(r)
        /\ run[r].n_fetch = 3
        /\ run[r].outcome = "error"

\* C20: for every base delay d and max_retries n >= 1 the wrapper waits
\* d * 2^(k - 1) between failed attempt k and attempt k + 1, and does not
\* wait after the final failed attempt.
BackoffDoubles ==
    pc = "retry" =>
        /\ \A k \in 1..Len(wrapped.sleeps) :
              wrapped.sleeps[k] = wrapped.delay * 2^(k - 1)
        /\ wrapped.pc = "call" => Len(wrapped.sleeps) = wrapped.calls
        /\ wrapped.pc = "raised" =>
              /\ wrapped.calls = wrapped.max_retries
              /\ Len(wrapped.sleeps) = wrapped.max_retries - 1

(***************************************************************************)
(* Properties of the post step (Spec).                                     *)
(***************************************************************************)
\* The run is in its post step: post_comments of pr_reviewer.py, post_summary
\* and post_comment of review.py.
InPostStep(r) == run[r].pc \in {"post_review", "post_marker", "summary", "post"}

\* C21: a failure to post the review or the marker ends the run in error,
\* and the post step is not tried again within the run: no attempt of the
\* post step follows a failed one, and create_review and
\* create_issue_comment for the marker return at most once per run.
PostNotReattempted ==
    \A r \in Runs :
        /\ InPostStep(r) => run[r].retries = 0
        /\ run[r].n_review <= 1
        /\ run[r].n_marker <= 1

(***************************************************************************)
(* Properties of process_chunks (Spec).                                    *)
(***************************************************************************)
\* C22: process_chunks waits chunk_delay once between two consecutive
\* chunks and never after the last: after chunk k of c the run has waited k
\* times if k < c and c - 1 times if k = c, and a run over 0 or 1 chunks
\* never waits.
DelaysBetweenChunks ==
    program = "pr_reviewer" =>
        \A r \in Runs :
            /\ run[r].pc = "generate" =>
                  LET c == NumChunks(r)
                  IN  run[r].n_delay = IF run[r].chunk < c THEN run[r].chunk
                                       ELSE IF c = 0 THEN 0
                                       ELSE c - 1
            /\ (run[r].pc \in {"post_review", "post_marker"}
                   \/ run[r].outcome = "completed") =>
                  LET c == NumChunks(r)
                  IN  /\ c >= 1 => run[r].n_delay = c - 1
                      /\ c <= 1 => run[r].n_delay = 0

DelaysBetweenChunksWitness ==
    \E r \in Runs :
        /\ program = "pr_reviewer"
        /\ run[r].outcome = "completed"
        /\ NumChunks(r) = 2
        /\ run[r].n_backend = 2
        /\ run[r].n_delay = 1

CeilDiv(n, d) == (n + d - 1) \div d

\* The items of chunk k of a structured diff, counted from 1.
ChunkOf(items, k) ==
    SubSeq(items, CHUNK_SIZE * (k - 1) + 1,
           IF CHUNK_SIZE * k < Len(items) THEN CHUNK_SIZE * k ELSE Len(items))

\* C23: in a run that reaches chunking with n items the backend is invoked
\* once per chunk, in chunk order, ceil(n / chunk_size) times in all (never
\* for an empty structured diff), and the answer for chunk k is in hand
\* before the backend is invoked for chunk k + 1.
BackendOncePerChunk ==
    program = "pr_reviewer" =>
        \A r \in Runs :
            /\ run[r].pc \in {"generate", "post_review", "post_marker"} =>
                  /\ run[r].n_backend = run[r].chunk
                  /\ Len(run[r].responses) = run[r].n_backend
                  /\ Len(run[r].sent) = run[r].n_backend
                  /\ run[r].n_backend <= CeilDiv(Len(run[r].sdiff), CHUNK_SIZE)
                  /\ \A k \in 1..Len(run[r].sent) :
                        run[r].sent[k] = ChunkOf(run[r].sdiff, k)
            /\ (run[r].pc \in {"post_review", "post_marker"}
                   \/ run[r].outcome = "completed") =>
                  run[r].n_backend =
                      CeilDiv(Len(StructuredOf(run[r].diff)), CHUNK_SIZE)

BackendOncePerChunkWitness ==
    \E r \in Runs :
        /\ program = "pr_reviewer"
        /\ run[r].pc = "post_review"
        /\ Len(run[r].sdiff) > CHUNK_SIZE
        /\ Len(run[r].sent) = 2
        /\ Len(run[r].sent[2]) = 1

\* A run over an empty structured diff completes without a backend call.
BackendOncePerChunkEmptyReached ==
    \E r \in Runs :
        /\ program = "pr_reviewer"
        /\ run[r].outcome = "completed"
        /\ run[r].diff # <<>>
        /\ StructuredOf(run[r].diff) = <<>>
        /\ run[r].n_backend = 0

(***************************************************************************)
(* Properties of the configuration check (Spec).                           *)
(***************************************************************************)
\* C24: a run of pr_reviewer that finds the token or the repository
\* identifier missing ends in a configuration error before any call to the
\* Git host or to the backend: the head is not read, the issue comments are
\* not read, no diff is fetched, no backend call is made, nothing is posted.
ConfigErrorBeforeAnyCall ==
    program = "pr_reviewer" =>
        \A r \in Runs :
            (run[r].pc # "idle" /\ run[r].outcome # "past"
                /\ (run[r].env.GITHUB_TOKEN \in {NoneVal, <<>>}
                       \/ run[r].env.GITHUB_REPOSITORY \in {NoneVal, <<>>}))
            => /\ run[r].pc = "failed"
               /\ run[r].outcome = "config_error"
               /\ run[r].sha = 0
               /\ run[r].seen_issue = <<>>
               /\ NoWork(r)

ConfigErrorBeforeAnyCallWitness ==
    \E r \in Runs :
        /\ program = "pr_reviewer"
        /\ run[r].outcome = "config_error"
        /\ run[r].env.GITHUB_TOKEN = <<"t">>
        /\ run[r].env.GITHUB_REPOSITORY = NoneVal
        /\ NoWork(r)

(***************************************************************************)
(* Properties of overlapping runs (Spec).                                  *)
(***************************************************************************)
\* The run has left its marker check.
PastCheck(r) ==
    /\ run[r].pc \notin {"idle", "check"}
    /\ run[r].outcome \notin {"past", "config_error"}

\* C25: no lock or transaction stands between two runs: the only thing that
\* stops a run at its check is a marker for its head among the issue
\* comments it read, so a run under way that has not posted its marker does
\* not stop another one, and a review posted by another run does not stop a
\* run that is past its check from posting its own.
NoLockBetweenRuns ==
    \A r \in Runs :
        PastCheck(r) =>
            /\ run[r].outcome = "already_processed" =>
                  CarriesMarker(run[r].seen_issue, run[r].sha)
            /\ (program = "pr_reviewer" /\ run[r].outcome = "completed"
                   /\ run[r].comments # <<>>) =>
                  \E k \in PostedBy(r) : reviews[k].comments = run[r].comments

\* Two runs against one head that both passed the check before either
\* posted, and that both posted the same review comments.
DuplicateByConcurrentRuns ==
    \E k, j \in 1..Len(reviews) :
        /\ k < j
        /\ reviews[k].run # reviews[j].run
        /\ reviews[k].sha = reviews[j].sha
        /\ reviews[k].comments = reviews[j].comments
        /\ reviews[k].comments # <<>>
        /\ \A r \in {reviews[k].run, reviews[j].run} :
              /\ PastCheck(r)
              /\ run[r].seen_reviews < k
              /\ ~CarriesMarker(run[r].seen_issue, run[r].sha)

(***************************************************************************)
(* Properties of _normalize_code (SpecNormalize).                          *)
(***************************************************************************)
IsInk(c) == c \notin Whitespace

\* The two texts differ in whitespace only: they are the same once every
\* whitespace character is taken out.
WhitespaceOnlyDifference(s, t) == SelectSeq(s, IsInk) = SelectSeq(t, IsInk)

\* C26: two texts that differ only in whitespace are equal under
\* _normalize_code, so a finding whose line_string differs from an item's
\* changes only in whitespace is matched to that item.
WhitespaceInsensitiveMatch ==
    (pc = "done" /\ Len(structured_diff) = 1 /\ Len(review_response) = 1) =>
        LET item == structured_diff[1]
            finding == review_response[1]
        IN (item.file_path = finding.file_path
               /\ WhitespaceOnlyDifference(item.changes, finding.line_string))
           => /\ _normalize_code(item.changes) = _normalize_code(finding.line_string)
              /\ github_comments = <<host_comment(finding, item)>>

(***************************************************************************)
(* Properties of the deduplication against existing comments (SpecBuild).  *)
(***************************************************************************)
\* One existing comment agrees with the item on file path, normalized
\* content and position together.
JointMatch(item) ==
    \E e \in existing_comments :
        /\ e.file_path = item.file_path
        /\ e.normalized_body = _normalize_code(item.changes)
        /\ e.position = item.line

Unmatched(item) == ~JointMatch(item)

\* C27: building the structured diff drops a candidate item if and only if
\* one single existing comment matches it on file path, normalized content
\* and position together: the structured diff is the sequence of the
\* candidates without the matched ones.
DropsJointMatchesOnly ==
    pc = "parsed" =>
        structured_diff =
            SelectSeq(create_structured_diff(diff_content).diff, Unmatched)

(***************************************************************************)
(* Properties of AIReviewGenerator.generate (SpecGenerate).                *)
(***************************************************************************)
\* The backend item has a file path, a line content and a comment.
IsComplete(item) ==
    item.file_path # <<>> /\ item.changes # <<>> /\ item.comment # <<>>

RECURSIVE FindingsOfComplete(_)
FindingsOfComplete(items) ==
    IF items = <<>> THEN <<>>
    ELSE (IF IsComplete(Head(items))
          THEN <<Finding(Head(items).file_path, Head(items).changes,
                         Head(items).comment)>>
          ELSE <<>>)
         \o FindingsOfComplete(Tail(items))

\* C28: a backend item with an empty file path, line content or comment
\* yields no finding and hence no host comment, and the items with all
\* three non-empty are passed on to reconciliation: the findings are those
\* of the complete items, in order, and the host comments come from them.
EmptyFieldItemsUnused ==
    /\ pc \in {"findings", "done"} /\ diff_response # <<>> =>
          review_response = FindingsOfComplete(diff_response)
    /\ pc = "done" /\ diff_response # <<>> =>
          github_comments =
              apply_review_comments(FindingsOfComplete(diff_response), structured_diff)

(***************************************************************************)
(* The structured diff after create_structured_diff (Spec).                *)
(***************************************************************************)
\* C29: chunk_diff_data, process_chunks, merge_review_responses and
\* apply_review_comments leave the structured diff as create_structured_diff
\* returned it: no item is added, removed, reordered or modified, and the
\* comment field of every item stays empty.
StructuredDiffUnchanged ==
    program = "pr_reviewer" =>
        \A r \in Runs :
            run[r].pc \in {"generate", "post_review", "post_marker"} =>
                /\ run[r].sdiff = StructuredOf(run[r].diff)
                /\ \A k \in DOMAIN run[r].sdiff : run[r].sdiff[k].comment = <<>>

StructuredDiffUnchangedWitness ==
    \E r \in Runs :
        /\ program = "pr_reviewer"
        /\ run[r].pc = "post_marker"
        /\ Len(run[r].sdiff) > CHUNK_SIZE
        /\ Len(run[r].comments) = Len(run[r].sdiff)

(***************************************************************************)
(* Positions and new-file line numbers (SpecParse).                        *)
(***************************************************************************)
\* The index of the nearest hunk header before index s, NoLine when there
\* is none.
HunkHeaderBefore(s) ==
    LET hs == {k \in 0..(s - 1) : IsHunkHeader(k)}
    IN IF hs = {} THEN NoLine ELSE CHOOSE k \in hs : \A m \in hs : m <= k

IsContextOrAdded(k) ==
    \/ startswith(diff_content[k + 1], <<" ">>)
    \/ startswith(diff_content[k + 1], <<"+">>)

\* The new-file start N of the hunk header at index h.
NewStart(h) == int(hunk_header_match(diff_content[h + 1]))

\* C30: within a hunk whose header gives new-file start N, the line of an
\* item is N plus the number of context and added lines between the hunk
\* header and the block's first line, i.e. the new-file line number of the
\* block's first added line; removed lines, before or after the first
\* context or added line of the hunk, add nothing.  Stated for well-formed
\* diffs with no index, --- or +++ line in a hunk body.
PositionIsNewFileLine ==
    (pc = "parsed" /\ WellFormedDiff /\ PlainBody) =>
        \A j \in 1..Len(structured_diff) :
            LET s == block_starts[j]
                h == HunkHeaderBefore(s)
            IN structured_diff[j].line =
                   NewStart(h) + Cardinality({k \in (h + 1)..(s - 1) : IsContextOrAdded(k)})

(***************************************************************************)
(* File paths and block boundaries of create_structured_diff (SpecParse).  *)
(***************************************************************************)
\* The new path the 'diff --git' line at index h names, NoneVal when the
\* line carries no a/ and b/ pair.
NewPathAt(h) == file_header_match(diff_content[h + 1])

\* C31: every item's file_path is the new (b/) path of the nearest
\* 'diff --git' line before its block, whatever the form of the header
\* lines: no item has an unset file_path and none carries the path of an
\* earlier file.  Stated for diffs that open with a 'diff --git' line, as
\* every diff of the host does.
FilePathOfNearestHeader ==
    (pc = "parsed" /\ IsFileHeader(0)) =>
        \A j \in 1..Len(structured_diff) :
            LET h == FileHeaderBefore(block_starts[j])
            IN /\ structured_diff[j].file_path # NoneVal
               /\ structured_diff[j].file_path = NewPathAt(h)

\* Every 'diff --git' line of the diff carries an a/ and b/ pair, and the
\* diff opens with one.
HeadersParse ==
    /\ IsFileHeader(0)
    /\ \A k \in 0..(Len(diff_content) - 1) : IsFileHeader(k) => NewPathAt(k) # NoneVal

FilePathOfNearestParsedHeader == HeadersParse => FilePathOfNearestHeader

FilePathOfNearestParsedHeaderReached ==
    /\ pc = "parsed"
    /\ HeadersParse
    /\ \E j \in 1..Len(structured_diff) : structured_diff[j].file_path = <<"g">>

IsHeader(k) == IsFileHeader(k) \/ IsHunkHeader(k)

\* An added line with text on it, other than a '+++ ' line.
IsPlainAdded(k) ==
    /\ startswith(diff_content[k + 1], <<"+">>)
    /\ ~startswith(diff_content[k + 1], NEW_PREFIX)
    /\ strip(Tail(diff_content[k + 1])) # <<>>

ItemLines(j) == split(structured_diff[j].changes, NL)

\* The index of the diff line after the last line of item j's block.
BlockEnd(j) == block_starts[j] + Len(ItemLines(j))

\* The path assigned by the last 'diff --git' line before index s that
\* carries an a/ and b/ pair, NoneVal when there is none.
CurrentFileAt(s) ==
    LET hs == {k \in 0..(s - 1) : IsFileHeader(k) /\ NewPathAt(k) # NoneVal}
    IN IF hs = {} THEN NoneVal
       ELSE NewPathAt(CHOOSE k \in hs : \A m \in hs : m <= k)

\* C32: a hunk header or a file header ends the open block.  Every item is
\* one run of consecutive added lines of the diff, so no item joins added
\* lines from the two sides of a header; an added line right before a
\* header closes an item there; and the item carries the file path that was
\* in force before the header.
HeaderEndsBlock ==
    pc = "parsed" =>
        /\ \A j \in 1..Len(structured_diff) :
              /\ BlockEnd(j) <= Len(diff_content)
              /\ \A k \in block_starts[j]..(BlockEnd(j) - 1) :
                    diff_content[k + 1] = <<"+">> \o ItemLines(j)[k - block_starts[j] + 1]
              /\ structured_diff[j].file_path = CurrentFileAt(block_starts[j])
        /\ \A h \in 1..(Len(diff_content) - 1) :
              (IsHeader(h) /\ IsPlainAdded(h - 1)) =>
                  \E j \in 1..Len(structured_diff) :
                      /\ BlockEnd(j) = h
                      /\ structured_diff[j].file_path = CurrentFileAt(h)

\* A parsed file header between two added lines: two items, the first with
\* the earlier path, the second with the header's.
HeaderEndsBlockWitness ==
    /\ pc = "parsed"
    /\ \E h \in 1..(Len(diff_content) - 2) :
          /\ IsFileHeader(h)
          /\ IsPlainAdded(h - 1)
          /\ IsPlainAdded(h + 1)
          /\ \E j \in 1..(Len(structured_diff) - 1) :
                /\ BlockEnd(j) = h
                /\ block_starts[j + 1] = h + 1
                /\ structured_diff[j].file_path = <<"f">>
                /\ structured_diff[j + 1].file_path = <<"g">>

\* A hunk header between two added lines: two items of one file.
HeaderEndsBlockHunkReached ==
    /\ pc = "parsed"
    /\ \E h \in 1..(Len(diff_content) - 2) :
          /\ IsHunkHeader(h)
          /\ IsPlainAdded(h - 1)
          /\ IsPlainAdded(h + 1)
          /\ \E j \in 1..(Len(structured_diff) - 1) :
                /\ BlockEnd(j) = h
                /\ block_starts[j + 1] = h + 1

(***************************************************************************)
(* Properties of the posted batch (Spec).                                  *)
(***************************************************************************)
\* C33: no two comments of the batch a run posts have the same path and
\* position, also when several findings match one item or several items of
\* one file have the same normalized changes.
BatchPositionsDistinct ==
    \A k \in 1..Len(reviews) :
        \A a, b \in DOMAIN reviews[k].comments :
            (reviews[k].comments[a].path = reviews[k].comments[b].path
                /\ reviews[k].comments[a].position = reviews[k].comments[b].position)
            => a = b

\* The same for the list apply_review_comments returns, over findings that
\* are pairwise different in file path or normalized line.
FindingsDistinct ==
    \A a, b \in DOMAIN review_response :
        (review_response[a].file_path = review_response[b].file_path
            /\ _normalize_code(review_response[a].line_string)
                   = _normalize_code(review_response[b].line_string))
        => a = b

ReconciledPositionsDistinct ==
    (pc = "done" /\ FindingsDistinct) =>
        \A a, b \in DOMAIN github_comments :
            (github_comments[a].path = github_comments[b].path
                /\ github_comments[a].position = github_comments[b].position)
            => a = b

ReconciledPositionsDistinctReached ==
    /\ pc = "done"
    /\ FindingsDistinct
    /\ Len(github_comments) >= 2

\* The number of issue comments that are the marker of commit n, and the
\* number of reviews posted for commit n.
MarkersFor(n) ==
    Cardinality({c \in 1..Len(issue_comments) :
                    issue_comments[c] = pr_marker(n)})

ReviewsFor(n) == Cardinality({k \in 1..Len(reviews) : reviews[k].sha = n})

\* C34: post_comments posts the marker only after create_review has
\* returned in the same run: a run that posted a marker has its review for
\* that head on the change request, a run in which create_review raised has
\* posted no marker, and the change request never carries more markers for
\* a head than reviews for it.
MarkerOnlyAfterReview ==
    /\ \A r \in Runs :
          /\ run[r].n_marker <= run[r].n_review
          /\ run[r].n_marker >= 1 =>
                \E k \in PostedBy(r) :
                    /\ reviews[k].sha = run[r].sha
                    /\ reviews[k].comments = run[r].comments
          /\ run[r].pc = "post_marker" => run[r].n_review = 1
    /\ \A n \in 1..MaxSha : MarkersFor(n) <= ReviewsFor(n)

\* One run ended when create_review raised, with no marker on the change
\* request, and a later run posted its review and then its marker.
MarkerOnlyAfterReviewWitness ==
    /\ program = "pr_reviewer"
    /\ \E r, q \in Runs :
          /\ run[r].pc = "failed"
          /\ run[r].outcome = "error"
          /\ run[r].comments # <<>>
          /\ run[r].n_review = 0
          /\ run[q].outcome = "completed"
          /\ run[q].n_marker = 1
          /\ run[q].sha = run[r].sha
          /\ MarkersFor(run[q].sha) = 1

(***************************************************************************)
(* review.py post_comment under its retry decorator (Spec).                *)
(***************************************************************************)
\* file_hunks never records an added line (current_hunk is never assigned),
\* so no finding gets a position: the payload of every attempt is empty and
\* a run of review.py creates no review and posts no marker.  The case of
\* an attempt that created a review and then failed at the marker does not
\* arise.
RvCreatesNoReview ==
    program = "review" =>
        /\ reviews = <<>>
        /\ \A r \in Runs : run[r].n_review = 0 /\ run[r].n_marker = 0

(***************************************************************************)
(* Order of the findings and of the comments (SpecMerge).                  *)
(***************************************************************************)
\* The number of findings in the responses before response k.
RECURSIVE FindingsBefore(_)
FindingsBefore(k) ==
    IF k <= 1 THEN 0
    ELSE FindingsBefore(k - 1) + Len(review_responses[k - 1])

\* C36: the comments of a run keep the order of the findings.  The merged
\* response is the findings of the chunks one chunk after the other, each
\* chunk's findings in the order the backend gave them;
\* apply_review_comments returns one comment for every finding that matches
\* an item and none for the others, in the order of the findings; so there
\* are never more comments than findings.
CommentsKeepFindingOrder ==
    /\ pc \in {"findings", "done"} =>
          /\ Len(review_response) = FindingsBefore(Len(review_responses) + 1)
          /\ \A k \in DOMAIN review_responses :
                \A i \in DOMAIN review_responses[k] :
                    review_response[FindingsBefore(k) + i] = review_responses[k][i]
    /\ pc = "done" =>
          LET HasEntry(f) ==
                  \E e \in DOMAIN structured_diff : entry_matches(structured_diff[e], f)
              kept == SelectSeq(review_response, HasEntry)
          IN /\ Len(github_comments) = Len(kept)
             /\ Len(github_comments) <= Len(review_response)
             /\ \A k \in DOMAIN github_comments :
                   /\ github_comments[k].path = kept[k].file_path
                   /\ github_comments[k].body = FINDING_PREFIX \o kept[k].comment

\* Two chunks with findings, three findings in all, the one without a
\* matching item dropped, and the two comments told apart by their bodies.
CommentsKeepFindingOrderWitness ==
    /\ pc = "done"
    /\ Len(review_responses) = 2
    /\ review_responses[1] # <<>>
    /\ review_responses[2] # <<>>
    /\ Len(review_response) = 3
    /\ Len(github_comments) = 2
    /\ github_comments[1].body # github_comments[2].body

=============================================================================
